---- MODULE Spec2Model ----
(***************************************************************************)
(* A model of mem: local specs, tasks and todos kept as markdown files     *)
(* with YAML frontmatter, and their synchronisation with GitHub issues and *)
(* pull requests.                                                          *)
(*                                                                         *)
(* Texts (bodies, titles, slugs) are sequences of tokens.  A token is one  *)
(* character, or a fixed multi-character string the code treats as a unit  *)
(* ("[Spec]:", the comments SEPARATOR).  None is the empty sequence or 0.  *)
(***************************************************************************)
EXTENDS Integers, Sequences, FiniteSets, TLC

VARIABLES
    specs,      \* slug -> the spec.md file of .mem/specs/[completed/|abandoned/]slug
    todos,      \* slug -> the file .mem/todos/slug.md
    issues,     \* GitHub issues of the repository, by number 1..Len(issues)
    prs,        \* GitHub pull requests, by number 1..Len(prs)
    plan,       \* the SyncPlan of the sync run in progress (or of the last one)
    pc,         \* position of the sync command: "idle" or "planned"
    dryRun,     \* the --dry-run flag of the sync run in progress (or of the last)
    conflicted, \* history: slugs the last sync reported as conflicts, and those edited since
    ops,        \* number of user and GitHub-side operations so far
    current_branch, \* the branch checked out where sync runs
    dev_tree,   \* the committed .mem files of dev while another branch is checked out
    tasks,      \* task files of one spec, sorted by order number
    lastCmd,    \* the last task command: its name, its task's order number, its exit code
    clone,      \* user -> that user's clone: files, commits, position in spec assign
    origin,     \* branch -> the commits of that branch on the shared remote
    assignees,  \* assignees of the spec's GitHub issue
    caller_dir, \* where spec complete / abandon run: None in the main repository,
                \* else the slug that names the worktree directory
    checked_out, \* the branch checked out in caller_dir
    worktrees,  \* slugs that have a worktree directory
    dirty,      \* caller_dir has uncommitted changes
    result,     \* the last spec complete / abandon / merge: command, slug argument, exit code
    heads,      \* the commit each of dev, test, main points at, locally and on origin
    pulls,      \* what GitHub reports on each pull request, by number
    argv,       \* the target and the flags of the last mem merge [into]
    branches    \* the names of the local branches and of those on origin

vars == <<specs, todos, issues, prs, plan, pc, dryRun, conflicted, ops,
          current_branch, dev_tree, tasks, lastCmd, clone, origin, assignees,
          caller_dir, checked_out, worktrees, dirty, result,
          heads, pulls, argv, branches>>

gitVars == <<current_branch, dev_tree>>
syncVars == <<specs, todos, issues, prs, plan, pc, dryRun, conflicted, ops,
              gitVars>>
taskVars == <<tasks, lastCmd>>
assignVars == <<clone, origin, assignees>>
lifeVars == <<caller_dir, checked_out, worktrees, dirty, result>>
mergeVars == <<heads, pulls, argv, branches>>

(***************************************************************************)
(* Bounds of the model.                                                    *)
(***************************************************************************)
MaxIssues == 3      \* issues GitHub may hold
MaxPRs == 1         \* pull requests GitHub may hold
MaxOps == 4         \* user and GitHub-side operations in one behaviour
MaxTasks == 2       \* task files of the spec at one time
MaxOrder == 2       \* highest order number a task file gets
MaxSubtasks == 2    \* subtasks embedded in one task
MaxCommits == 3     \* commits on one branch of a clone

(***************************************************************************)
(* Text helpers.                                                           *)
(***************************************************************************)
None == <<>>

Whitespace == {" ", "\n"}

RECURSIVE LStrip(_)
LStrip(t) == IF t # <<>> /\ Head(t) \in Whitespace THEN LStrip(Tail(t)) ELSE t

RECURSIVE RStrip(_)
RStrip(t) ==
    IF t # <<>> /\ t[Len(t)] \in Whitespace
    THEN RStrip(SubSeq(t, 1, Len(t) - 1))
    ELSE t

\* str.strip()
Strip(t) == RStrip(LStrip(t))

IsPrefix(p, t) == Len(p) <= Len(t) /\ SubSeq(t, 1, Len(p)) = p

\* "p in t" for strings
Contains(t, p) ==
    \E i \in 0..(Len(t) - Len(p)) : SubSeq(t, i + 1, i + Len(p)) = p

RECURSIVE Filter(_, _)
Filter(t, drop) ==
    IF t = <<>> THEN <<>>
    ELSE (IF Head(t) \in drop THEN <<>> ELSE <<Head(t)>>) \o Filter(Tail(t), drop)

\* The comments separator "\n\n===\n***\n===\n\n", one token.
SEPARATOR == <<"===">>

\* content.split(SEPARATOR)[0]
RECURSIVE BeforeSeparator(_)
BeforeSeparator(t) ==
    IF t = <<>> \/ IsPrefix(SEPARATOR, t) THEN <<>>
    ELSE <<Head(t)>> \o BeforeSeparator(Tail(t))

\* SHA-256, taken to be injective: the digest is the content, tagged.
compute_content_hash(content) == <<"sha256", content>>

content_differs(hash1, hash2) ==
    IF hash1 = None \/ hash2 = None THEN TRUE ELSE hash1 # hash2

\* dump_frontmatter: what follows the closing "---" of the frontmatter.
dump_frontmatter(body) ==
    IF body # <<>> /\ Head(body) # "\n" THEN <<"\n">> \o body ELSE body

\* parse_frontmatter: the regex ^---\n(.*?)\n---\n?(.*) gives the body as group 2.
parse_frontmatter(rest) ==
    IF rest # <<>> /\ Head(rest) = "\n" THEN Tail(rest) ELSE rest

\* extract_body_from_spec_file: frontmatter and comments removed, stripped.
extract_body_from_spec_file(rest) ==
    Strip(BeforeSeparator(parse_frontmatter(rest)))

(***************************************************************************)
(* Slugs.                                                                  *)
(***************************************************************************)
Lower(c) ==
    CASE c = "A" -> "a"
      [] c = "B" -> "b"
      [] c = "T" -> "t"
      [] c = "[Spec]:" -> "[spec]:"
      [] OTHER -> c

\* re.sub(r"[^a-z0-9_]", "", slug) on one token
Alnum(c) ==
    CASE c \in {"a", "b", "t", "u", "_"} -> <<c>>
      [] c = "[spec]:" -> <<"spec">>
      [] OTHER -> <<>>

RECURSIVE SlugTokens(_)
SlugTokens(t) ==
    IF t = <<>> THEN <<>>
    ELSE LET c == Lower(Head(t))
             d == IF c \in Whitespace \cup {"-"} THEN "_" ELSE c
         IN  Alnum(d) \o SlugTokens(Tail(t))

\* re.sub(r"_+", "_", slug)
RECURSIVE Collapse(_)
Collapse(t) ==
    IF Len(t) < 2 THEN t
    ELSE IF t[1] = "_" /\ t[2] = "_" THEN Collapse(Tail(t))
    ELSE <<Head(t)>> \o Collapse(Tail(t))

RECURSIVE StripUnderscore(_)
StripUnderscore(t) ==
    IF t # <<>> /\ Head(t) = "_" THEN StripUnderscore(Tail(t))
    ELSE IF t # <<>> /\ t[Len(t)] = "_"
         THEN StripUnderscore(SubSeq(t, 1, Len(t) - 1))
         ELSE t

\* src/utils/markdown.py slugify
markdown_slugify(text) == StripUnderscore(Collapse(SlugTokens(text)))

\* issue.title.replace("[Spec]:", "").replace("[Spec]: ", "").strip()
clean_title(title) == Strip(Filter(title, {"[Spec]:"}))

\* src/utils/sync_utils.py slugify: the "[Spec]:" prefix is removed first
slugify(text) == markdown_slugify(clean_title(text))

(***************************************************************************)
(* Spec files (src/utils/specs.py).  S is the specs directory: a function  *)
(* from the slugs that have a spec.md to the file.  "rest" is the file's   *)
(* text after the frontmatter's closing "---".                             *)
(***************************************************************************)
\* DEFAULT_SPEC_TEMPLATE: text that ends with a newline
SpecTemplate == <<"t", "\n">>

\* create_spec_frontmatter + write_md_file
NewSpecFile(title) ==
    [dir |-> "root", title |-> title, status |-> "todo", assigned_to |-> "",
     issue_id |-> 0, pr_url |-> 0, branch |-> None,
     local_content_hash |-> None, remote_content_hash |-> None,
     rest |-> dump_frontmatter(SpecTemplate)]

\* read_md_file then write_md_file of an unchanged body
Rewrite(f) == [f EXCEPT !.rest = dump_frontmatter(parse_frontmatter(f.rest))]

\* _find_spec_dir: root, then completed, then abandoned
find_spec_dir(S, slug) == IF slug \in DOMAIN S THEN S[slug].dir ELSE "none"

\* resolve_spec_slug_prefix: an exact match wins, else a unique prefix match
resolve_spec_slug_prefix(S, prefix) ==
    LET matches == {s \in DOMAIN S : IsPrefix(prefix, s)}
    IN  IF prefix = <<>> THEN None
        ELSE IF prefix \in DOMAIN S THEN prefix
        ELSE IF Cardinality(matches) = 1 THEN CHOOSE s \in matches : TRUE
        ELSE None

\* get_spec: the slug of the spec read, None when there is none
get_spec(S, slug) == resolve_spec_slug_prefix(S, slug)

\* list_specs: the slugs listed (as a set; the order is by updated_at)
list_specs(S, status) ==
    IF status = "completed" THEN {s \in DOMAIN S : S[s].dir = "completed"}
    ELSE IF status = "abandoned" THEN {s \in DOMAIN S : S[s].dir = "abandoned"}
    ELSE {s \in DOMAIN S :
            S[s].dir = "root" /\ (status = "" \/ S[s].status = status)}

\* create_spec, for a slug that has no spec yet
create_spec(S, title) ==
    LET slug == markdown_slugify(title)
    IN  (slug :> NewSpecFile(title)) @@ S

update_spec_body(S, slug, body) ==
    [S EXCEPT ![slug].rest = dump_frontmatter(body)]

update_spec_status(S, slug, status) ==
    [S EXCEPT ![slug] = Rewrite([@ EXCEPT !.status = status])]

assign_spec(S, slug, username) ==
    [S EXCEPT ![slug] = Rewrite([@ EXCEPT !.assigned_to = username])]

update_spec_issue_info(S, slug, issue_id) ==
    [S EXCEPT ![slug] = Rewrite([@ EXCEPT !.issue_id = issue_id])]

update_spec_pr_url(S, slug, pr_url) ==
    [S EXCEPT ![slug] = Rewrite([@ EXCEPT !.pr_url = pr_url])]

mark_spec_synced(S, slug, local_hash, remote_hash) ==
    [S EXCEPT ![slug] = Rewrite([@ EXCEPT !.local_content_hash = local_hash,
                                          !.remote_content_hash = remote_hash])]

move_spec_status_only(S, slug) ==
    [S EXCEPT ![slug] = Rewrite([@ EXCEPT !.status = "completed"])]

\* move_spec_to_completed: status, then the directory
move_spec_to_completed(S, slug) ==
    [S EXCEPT ![slug] = Rewrite([@ EXCEPT !.status = "completed",
                                          !.dir = "completed"])]

(***************************************************************************)
(* GitHub (src/utils/github/api.py).  I is the sequence of issues, P the   *)
(* sequence of pull requests.                                              *)
(***************************************************************************)
STATUS_LABELS ==
    [todo |-> "mem-status:todo", active |-> "mem-status:active",
     inactive |-> "mem-status:inactive", completed |-> "mem-status:completed",
     merge_ready |-> "mem-status:merge-ready", archived |-> "mem-status:archived"]

StatusLabelNames == {STATUS_LABELS[s] : s \in DOMAIN STATUS_LABELS}

\* get_status_label_name: None ("") for a status without a label
get_status_label_name(status) ==
    IF status \in DOMAIN STATUS_LABELS THEN STATUS_LABELS[status] ELSE ""

\* get_status_from_labels: the status of the first status label, "" if none
get_status_from_labels(labels) ==
    LET found == {s \in DOMAIN STATUS_LABELS : STATUS_LABELS[s] \in labels}
    IN  IF found = {} THEN "" ELSE CHOOSE s \in found : TRUE

NewIssue(title, body, labels) ==
    [title |-> title, body |-> body, labels |-> labels, state |-> "open",
     assignee |-> "", comments |-> 0]

create_github_issue_unlabelled(I, title, body, labels) ==
    Append(I, NewIssue(title, body, {}))

create_github_issue(I, title, body, labels) ==
    Append(I, NewIssue(title, body, labels))

update_github_issue_body(I, n, body) == [I EXCEPT ![n].body = body]

sync_status_labels_add(I, n, new_status) ==
    [I EXCEPT ![n].labels = @ \cup {get_status_label_name(new_status)}]

\* sync_status_labels: every mem-status:* label replaced by the new one
sync_status_labels(I, n, new_status) ==
    LET kept == I[n].labels \ StatusLabelNames
        lbl == get_status_label_name(new_status)
    IN  [I EXCEPT ![n].labels = IF lbl = "" THEN kept ELSE kept \cup {lbl}]

close_issue_with_comment(I, n) ==
    [I EXCEPT ![n].comments = 1, ![n].state = "closed"]

\* list_repo_issues: newest first
RECURSIVE list_repo_issues_from(_, _, _)
list_repo_issues_from(I, state, n) ==
    IF n = 0 THEN <<>>
    ELSE (IF state = "all" \/ I[n].state = state THEN <<n>> ELSE <<>>)
         \o list_repo_issues_from(I, state, n - 1)

list_repo_issues(I, state) == list_repo_issues_from(I, state, Len(I))

is_pr_merged_if_exists(P, pr_url) == pr_url \in DOMAIN P

\* is_pr_merged: False when the pull request cannot be fetched
is_pr_merged(P, pr_url) == pr_url \in DOMAIN P /\ P[pr_url] = "merged"

\* get_comments, formatted and joined behind the separator
CommentsSection(issue) ==
    IF issue.comments > 0 THEN SEPARATOR \o <<"c">> ELSE <<>>

(***************************************************************************)
(* Todo files (src/utils/todos.py).  D maps the slugs that have a file to  *)
(* the issue id in the file's frontmatter (0 for None).                    *)
(***************************************************************************)
get_todo_by_issue_id(D, issue_id) == \E s \in DOMAIN D : D[s] = issue_id

get_todo(D, slug) == slug \in DOMAIN D

create_todo(D, title) ==
    [s \in DOMAIN D \cup {markdown_slugify(title)} |->
        IF s \in DOMAIN D THEN D[s] ELSE 0]

update_todo_issue_info(D, slug, issue_id) == [D EXCEPT ![slug] = issue_id]

(***************************************************************************)
(* build_sync_plan (src/commands/sync.py).  local_specs is the list of     *)
(* slugs list_specs() returned, github_issues the list of open issue       *)
(* numbers; S, D, I, P are the files and GitHub as read while planning.    *)
(***************************************************************************)
\* specs_by_issue_id: a dict comprehension, so the last spec listed wins
specs_by_issue_id(S, local_specs, n) ==
    LET idx == {i \in 1..Len(local_specs) : S[local_specs[i]].issue_id = n}
    IN  IF n = 0 \/ idx = {} THEN None
        ELSE local_specs[CHOOSE i \in idx : \A j \in idx : j <= i]

local_changed(S, slug) ==
    content_differs(
        compute_content_hash(extract_body_from_spec_file(S[slug].rest)),
        S[slug].local_content_hash)

remote_changed(S, slug, issue) ==
    content_differs(compute_content_hash(issue.body),
                    S[slug].remote_content_hash)

content_bucket_remote_first(S, local_specs, I, n) ==
    LET spec == specs_by_issue_id(S, local_specs, n)
    IN  IF "mem-spec" \notin I[n].labels THEN "not_spec"
        ELSE IF spec = None THEN "inbound_create"
        ELSE IF remote_changed(S, spec, I[n]) THEN "inbound_update"
        ELSE IF local_changed(S, spec) THEN "outbound_update"
        ELSE "unchanged"

\* The bucket the if/elif chain of lines 261-328 puts issue n in.
content_bucket(S, local_specs, I, n) ==
    LET spec == specs_by_issue_id(S, local_specs, n)
    IN  IF "mem-spec" \notin I[n].labels THEN "not_spec"
        ELSE IF spec = None THEN "inbound_create"
        ELSE IF local_changed(S, spec) /\ remote_changed(S, spec, I[n])
             THEN "conflict"
        ELSE IF remote_changed(S, spec, I[n]) THEN "inbound_update"
        ELSE IF local_changed(S, spec) THEN "outbound_update"
        ELSE "unchanged"

\* The status sync of lines 330-358 for issue n: its direction, "" for none.
status_sync_direction(S, local_specs, I, n) ==
    LET spec == specs_by_issue_id(S, local_specs, n)
        github_status == get_status_from_labels(I[n].labels)
    IN  IF content_bucket(S, local_specs, I, n)
              \notin {"inbound_update", "outbound_update", "unchanged"}
        THEN ""
        ELSE IF S[spec].status # "" /\ S[spec].status # github_status
             THEN "outbound"
        ELSE IF github_status # "" /\ S[spec].status = "" THEN "inbound"
        ELSE ""

\* Lines 359-373: an issue without mem-spec that has no todo yet.
needs_todo(D, I, n) ==
    /\ "mem-spec" \notin I[n].labels
    /\ ~get_todo_by_issue_id(D, n)
    /\ ~get_todo(D, slugify(I[n].title))

\* Lines 244-248: merge_ready specs whose pull request is merged.
specs_to_complete(S, P, local_specs) ==
    SelectSeq(local_specs,
              LAMBDA s : /\ S[s].status = "merge_ready"
                         /\ S[s].pr_url # 0
                         /\ is_pr_merged(P, S[s].pr_url))

ActionsFor(S, local_specs, I, issue_numbers) ==
    [i \in 1..Len(issue_numbers) |->
        [spec_slug |-> specs_by_issue_id(S, local_specs, issue_numbers[i]),
         issue_number |-> issue_numbers[i]]]

build_sync_plan(S, D, I, P, local_specs, github_issues) ==
    LET in_bucket(b) ==
            SelectSeq(github_issues,
                      LAMBDA n : content_bucket(S, local_specs, I, n) = b)
        status_issues ==
            SelectSeq(github_issues,
                      LAMBDA n : status_sync_direction(S, local_specs, I, n) # "")
        todo_issues == SelectSeq(github_issues, LAMBDA n : needs_todo(D, I, n))
        done == specs_to_complete(S, P, local_specs)
    IN  [specs_to_complete |->
            [i \in 1..Len(done) |->
                [slug |-> done[i], issue_id |-> S[done[i]].issue_id,
                 pr_url |-> S[done[i]].pr_url]],
         inbound_creates |-> in_bucket("inbound_create"),
         conflicts |-> ActionsFor(S, local_specs, I, in_bucket("conflict")),
         inbound_updates |->
            ActionsFor(S, local_specs, I, in_bucket("inbound_update")),
         outbound_updates |->
            ActionsFor(S, local_specs, I, in_bucket("outbound_update")),
         status_syncs |->
            [i \in 1..Len(status_issues) |->
                [direction |->
                    status_sync_direction(S, local_specs, I, status_issues[i]),
                 spec_slug |->
                    specs_by_issue_id(S, local_specs, status_issues[i]),
                 issue_number |-> status_issues[i]]],
         todos_to_create |->
            [i \in 1..Len(todo_issues) |->
                [title |-> I[todo_issues[i]].title,
                 issue_number |-> todo_issues[i]]],
         outbound_creates |->
            SelectSeq(local_specs, LAMBDA s : S[s].issue_id = 0)]

EmptyPlan ==
    [specs_to_complete |-> <<>>, inbound_creates |-> <<>>, conflicts |-> <<>>,
     inbound_updates |-> <<>>, outbound_updates |-> <<>>,
     status_syncs |-> <<>>, todos_to_create |-> <<>>,
     outbound_creates |-> <<>>]

\* SyncPlan.has_changes
has_changes(p) ==
    \/ p.inbound_creates # <<>>
    \/ p.inbound_updates # <<>>
    \/ p.outbound_creates # <<>>
    \/ p.outbound_updates # <<>>
    \/ p.status_syncs # <<>>
    \/ p.conflicts # <<>>
    \/ p.todos_to_create # <<>>
    \/ p.specs_to_complete # <<>>

(***************************************************************************)
(* execute_sync_plan (src/commands/sync.py).  st is the world a run works  *)
(* on: [specs, todos, issues].  S0 and I0 are specs_by_slug and            *)
(* issues_by_number, read once when the execution starts.                  *)
(***************************************************************************)
RECURSIVE FoldSeq(_, _, _)
FoldSeq(Op(_, _), st, seq) ==
    IF seq = <<>> THEN st ELSE FoldSeq(Op, Op(st, Head(seq)), Tail(seq))

execute_outbound_create(st, S0, slug) ==
    LET body == extract_body_from_spec_file(st.specs[slug].rest)
        status_label == get_status_label_name(S0[slug].status)
        labels == {"mem-spec"} \cup
                  (IF status_label = "" THEN {} ELSE {status_label})
        title == <<"[Spec]:", " ">> \o S0[slug].title
        I1 == create_github_issue(st.issues, title, body, labels)
        n == Len(I1)
        S1 == update_spec_issue_info(st.specs, slug, n)
    IN  [st EXCEPT !.issues = I1,
                   !.specs = mark_spec_synced(S1, slug,
                                 compute_content_hash(body),
                                 compute_content_hash(I1[n].body))]

\* update_github_issue is called with whatever the issue holds by now
execute_outbound_update(st, S0, slug) ==
    LET body == extract_body_from_spec_file(st.specs[slug].rest)
        n == S0[slug].issue_id
        I1 == update_github_issue_body(st.issues, n, body)
    IN  [st EXCEPT !.issues = I1,
                   !.specs = mark_spec_synced(st.specs, slug,
                                 compute_content_hash(body),
                                 compute_content_hash(I1[n].body))]

\* Skipped when get_spec resolves the slug to any spec at all.
execute_inbound_create(st, I0, n) ==
    LET issue_title == clean_title(I0[n].title)
        slug == slugify(issue_title)
        body == I0[n].body \o CommentsSection(st.issues[n])
        github_status == get_status_from_labels(I0[n].labels)
        S1 == create_spec(st.specs, issue_title)
        S2 == update_spec_body(S1, slug, body)
        S3 == update_spec_issue_info(S2, slug, n)
        S4 == IF I0[n].assignee # "" THEN assign_spec(S3, slug, I0[n].assignee)
              ELSE S3
        S5 == IF github_status # "" THEN update_spec_status(S4, slug, github_status)
              ELSE S4
        body_hash == compute_content_hash(I0[n].body)
    IN  IF get_spec(st.specs, slug) # None THEN st
        ELSE [st EXCEPT !.specs = mark_spec_synced(S5, slug, body_hash, body_hash)]

execute_inbound_update(st, S0, I0, slug, n) ==
    LET issue_title == clean_title(I0[n].title)
        body == I0[n].body \o CommentsSection(st.issues[n])
        S1 == update_spec_body(st.specs, slug, body)
        S2 == IF I0[n].assignee # "" THEN assign_spec(S1, slug, I0[n].assignee)
              ELSE S1
        S3 == IF S0[slug].title # issue_title
              THEN [S2 EXCEPT ![slug] = Rewrite([@ EXCEPT !.title = issue_title])]
              ELSE S2
        body_hash == compute_content_hash(I0[n].body)
    IN  [st EXCEPT !.specs = mark_spec_synced(S3, slug, body_hash, body_hash)]

execute_status_sync(st, S0, I0, action) ==
    LET github_status == get_status_from_labels(I0[action.issue_number].labels)
        local_status == S0[action.spec_slug].status
    IN  IF action.direction = "inbound"
        THEN IF github_status # ""
             THEN [st EXCEPT !.specs =
                      update_spec_status(st.specs, action.spec_slug, github_status)]
             ELSE st
        ELSE IF local_status # ""
             THEN [st EXCEPT !.issues =
                      sync_status_labels(st.issues, action.issue_number, local_status)]
             ELSE st

\* Lines 681-700: create_todo, then the link by the sync slug; a ValueError
\* from either ends the handling of this todo.
execute_todo(st, todo_data) ==
    LET title == todo_data.title
        D1 == create_todo(st.todos, title)
    IN  IF get_todo(st.todos, markdown_slugify(title)) THEN st
        ELSE IF get_todo(D1, slugify(title))
             THEN [st EXCEPT !.todos = update_todo_issue_info(
                                           D1, slugify(title), todo_data.issue_number)]
        ELSE [st EXCEPT !.todos = D1]

\* Lines 702-726: rec is the spec as read while planning.
execute_complete(st, rec) ==
    LET moved == IF find_spec_dir(st.specs, rec.slug) \in {"none", "completed"}
                 THEN st.specs
                 ELSE move_spec_to_completed(st.specs, rec.slug)
    IN  IF find_spec_dir(st.specs, rec.slug) \in {"none", "completed"} THEN st
        ELSE [st EXCEPT !.specs = moved,
                        !.issues = IF rec.issue_id # 0
                                   THEN close_issue_with_comment(@, rec.issue_id)
                                   ELSE @]

execute_sync_plan(p, st0) ==
    LET S0 == [s \in list_specs(st0.specs, "") |-> st0.specs[s]]
        I0 == st0.issues
        st1 == FoldSeq(LAMBDA st, slug :
                          IF slug \in DOMAIN S0
                          THEN execute_outbound_create(st, S0, slug) ELSE st,
                       st0, p.outbound_creates)
        st2 == FoldSeq(LAMBDA st, a :
                          IF a.spec_slug \in DOMAIN S0
                          THEN execute_outbound_update(st, S0, a.spec_slug) ELSE st,
                       st1, p.outbound_updates)
        st3 == FoldSeq(LAMBDA st, n :
                          IF n \in DOMAIN I0
                          THEN execute_inbound_create(st, I0, n) ELSE st,
                       st2, p.inbound_creates)
        st4 == FoldSeq(LAMBDA st, a :
                          IF a.spec_slug \in DOMAIN S0 /\ a.issue_number \in DOMAIN I0
                          THEN execute_inbound_update(st, S0, I0, a.spec_slug,
                                                      a.issue_number)
                          ELSE st,
                       st3, p.inbound_updates)
        st5 == FoldSeq(LAMBDA st, a :
                          IF a.spec_slug \in DOMAIN S0 /\ a.issue_number \in DOMAIN I0
                          THEN execute_status_sync(st, S0, I0, a) ELSE st,
                       st4, p.status_syncs)
        st6 == FoldSeq(LAMBDA st, todo_data : execute_todo(st, todo_data),
                       st5, p.todos_to_create)
    IN  FoldSeq(LAMBDA st, rec : execute_complete(st, rec),
                st6, p.specs_to_complete)

(***************************************************************************)
(* Inputs of the operations.                                               *)
(***************************************************************************)
SpecTitles == {<<"A">>, <<"A", "b">>}
IssueTitles == {<<"[Spec]:", " ", "A">>, <<"T">>}
IssueLabelSets == {{"mem-spec"}, {}}
NewIssueBodies == {<<"x">>}
GhBodies == {<<"x">>, <<"y", "\n">>}
LocalBodies == {<<"x">>, <<"y", "\n">>}
Users == {"u1", "u2"}

\* All orders in which a set of slugs can be listed.
Perms(s) ==
    {p \in [1..Cardinality(s) -> s] :
        \A i, j \in 1..Cardinality(s) : i # j => p[i] # p[j]}

\* A repository whose dev, test and main are at the first commit, here and
\* on origin; no mem merge run yet.
NoCommits ==
    [local |-> [dev |-> 0, test |-> 0, main |-> 0],
     origin |-> [dev |-> 0, test |-> 0, main |-> 0]]

NoArgs == [target |-> "", dry_run |-> FALSE, force |-> FALSE]

NoBranches == [local |-> {}, remote |-> {}]

NoFiles == [s \in {} |-> 0]

\* The branches of the shared remote that a clone may have checked out.
Branches == {"dev", "main"}

\* What every clone holds when two users turn to the same spec: the specs
\* "a" and "bt", synced as issues 1 and 2 and assigned to nobody, and the
\* spec "t", not synced yet.
SharedSpecs ==
    LET body == extract_body_from_spec_file(NewSpecFile(<<"A">>).rest)
        hash == compute_content_hash(body)
        S0 == create_spec(create_spec(create_spec(NoFiles, <<"A">>),
                                      <<"B", "t">>), <<"T">>)
        S1 == mark_spec_synced(update_spec_issue_info(S0, <<"a">>, 1),
                               <<"a">>, hash, hash)
    IN  mark_spec_synced(update_spec_issue_info(S1, <<"b", "t">>, 2),
                         <<"b", "t">>, hash, hash)

\* A clone in which spec assign has not been run yet.
InitClone ==
    [specs |-> SharedSpecs, history |-> <<SharedSpecs>>,
     active_branch |-> "dev", worktree |-> FALSE,
     pc |-> "start", arg |-> None, code |-> 0]

ConflictSlugs(p) == {p.conflicts[i].spec_slug : i \in 1..Len(p.conflicts)}

SpecOfIssue(S, n) == {s \in DOMAIN S : S[s].issue_id = n}

\* The .mem files of main: the branch holds the repository as it was
\* initialised, before any spec or todo was written on dev.
MainTree == [specs |-> NoFiles, todos |-> NoFiles]

\* The spec files of dev, checked out or not.
DevSpecs == IF current_branch = "dev" THEN specs ELSE dev_tree.specs

(***************************************************************************)
(* The initial state: an initialised repository without specs, a GitHub    *)
(* repository without issues.                                              *)
(***************************************************************************)
Init ==
    /\ specs = NoFiles
    /\ todos = NoFiles
    /\ issues = <<>>
    /\ prs = <<>>
    /\ plan = EmptyPlan
    /\ pc = "idle"
    /\ dryRun = FALSE
    /\ conflicted = [reported |-> {}, edited |-> {}]
    /\ ops = 0
    /\ current_branch = "dev"
    /\ dev_tree = MainTree
    /\ tasks = <<>>
    /\ lastCmd = [cmd |-> "", task |-> 0, code |-> 0]
    /\ clone = [u \in Users |-> InitClone]
    /\ origin = [b \in Branches |-> <<SharedSpecs>>]
    /\ assignees = {}
    /\ caller_dir = None
    /\ checked_out = <<"dev">>
    /\ worktrees = {}
    /\ dirty = FALSE
    /\ result = [cmd |-> "", slug |-> None, code |-> 0]
    /\ heads = NoCommits
    /\ branches = NoBranches
    /\ pulls = <<>>
    /\ argv = NoArgs

(***************************************************************************)
(* The user's commands on the local files.                                 *)
(***************************************************************************)
\* mem spec new <title>
SpecNew(title) ==
    /\ pc = "idle"
    /\ current_branch = "dev"
    /\ ops < MaxOps
    /\ find_spec_dir(specs, markdown_slugify(title)) = "none"
    /\ specs' = create_spec(specs, title)
    /\ ops' = ops + 1
    /\ UNCHANGED <<todos, issues, prs, plan, pc, dryRun, conflicted>>
    /\ UNCHANGED <<gitVars, taskVars, assignVars, lifeVars, mergeVars>>

\* The user saves spec.md with a new body in an editor.
LocalEdit(slug, body) ==
    /\ pc = "idle"
    /\ current_branch = "dev"
    /\ ops < MaxOps
    /\ slug \in list_specs(specs, "")
    /\ specs[slug].rest # <<"\n">> \o body
    /\ specs' = [specs EXCEPT ![slug].rest = <<"\n">> \o body]
    /\ conflicted' =
          IF slug \in conflicted.reported \cup conflicted.edited
          THEN [reported |-> conflicted.reported \ {slug},
                edited |-> conflicted.edited \cup {slug}]
          ELSE conflicted
    /\ ops' = ops + 1
    /\ UNCHANGED <<todos, issues, prs, plan, pc, dryRun>>
    /\ UNCHANGED <<gitVars, taskVars, assignVars, lifeVars, mergeVars>>

\* The user commits the work on dev and checks out main (git commit -a,
\* git checkout main).
GitCheckoutMain ==
    /\ pc = "idle"
    /\ current_branch = "dev"
    /\ ops < MaxOps
    /\ current_branch' = "main"
    /\ dev_tree' = [specs |-> specs, todos |-> todos]
    /\ specs' = MainTree.specs
    /\ todos' = MainTree.todos
    /\ ops' = ops + 1
    /\ UNCHANGED <<issues, prs, plan, pc, dryRun, conflicted>>
    /\ UNCHANGED <<taskVars, assignVars, lifeVars, mergeVars>>

(***************************************************************************)
(* What other people do on GitHub, at any time.                            *)
(***************************************************************************)
GhCreateIssue(title, body, labels) ==
    /\ ops < MaxOps
    /\ Len(issues) < MaxIssues
    /\ issues' = create_github_issue(issues, title, body, labels)
    /\ ops' = ops + 1
    /\ UNCHANGED <<specs, todos, prs, plan, pc, dryRun, conflicted>>
    /\ UNCHANGED <<gitVars, taskVars, assignVars, lifeVars, mergeVars>>

GhEditBody(n, body) ==
    /\ ops < MaxOps
    /\ n \in DOMAIN issues
    /\ issues[n].state = "open"
    /\ issues[n].body # body
    /\ issues' = update_github_issue_body(issues, n, body)
    /\ conflicted' =
          [reported |-> conflicted.reported \ SpecOfIssue(DevSpecs, n),
           edited |-> conflicted.edited \ SpecOfIssue(DevSpecs, n)]
    /\ ops' = ops + 1
    /\ UNCHANGED <<specs, todos, prs, plan, pc, dryRun>>
    /\ UNCHANGED <<gitVars, taskVars, assignVars, lifeVars, mergeVars>>

PRMerge(p) ==
    /\ ops < MaxOps
    /\ p \in DOMAIN prs
    /\ prs[p] = "open"
    /\ prs' = [prs EXCEPT ![p] = "merged"]
    /\ ops' = ops + 1
    /\ UNCHANGED <<specs, todos, issues, plan, pc, dryRun, conflicted>>
    /\ UNCHANGED <<gitVars, taskVars, assignVars, lifeVars, mergeVars>>

\* mem spec assign, lines 313-321: the assignee and the branch name go into
\* the local file before anything is pushed.
assign_locally(S, slug, username) ==
    LET branch_name == <<"dev", username>> \o slug
        S1 == assign_spec(S, slug, username)
    IN  IF S[slug].branch = None
        THEN [S1 EXCEPT ![slug] = Rewrite([@ EXCEPT !.branch = branch_name])]
        ELSE S1

\* mem spec assign <slug> <username> in the repository sync runs in.  pushed:
\* the commit, the push and the worktree creation succeeded; linked: the
\* GitHub call that sets the assignee succeeded.
SpecAssign(slug, username, pushed, linked) ==
    /\ pc = "idle"
    /\ current_branch = "dev"
    /\ ops < MaxOps
    /\ slug \in DOMAIN specs
    /\ specs[slug].issue_id # 0
    /\ specs[slug].assigned_to \in {"", username}
    /\ specs' = assign_locally(specs, slug, username)
    /\ issues' = IF pushed /\ linked
                 THEN [issues EXCEPT ![specs[slug].issue_id].assignee = username]
                 ELSE issues
    /\ ops' = ops + 1
    /\ UNCHANGED <<todos, prs, plan, pc, dryRun, conflicted>>
    /\ UNCHANGED <<gitVars, taskVars, assignVars, lifeVars, mergeVars>>

\* mem spec complete <slug> <message>, once the checks of lines 413-524 (pull,
\* active spec, tasks, work log) have passed.  pushed: git push succeeded;
\* pr_created: GitHub accepted the pull request.
SpecComplete(slug, pushed, pr_created) ==
    LET n == specs[slug].issue_id
        S1 == update_spec_status(specs, slug, "merge_ready")
        I1 == IF n # 0 THEN sync_status_labels(issues, n, "merge_ready")
              ELSE issues
        pr == n # 0 /\ specs[slug].branch # None /\ pushed /\ pr_created
    IN  /\ pc = "idle"
        /\ current_branch = "dev"
        /\ ops < MaxOps
        /\ slug \in DOMAIN specs
        /\ Len(prs) < MaxPRs
        /\ issues' = I1
        /\ prs' = IF pr THEN Append(prs, "open") ELSE prs
        /\ specs' = IF pr THEN update_spec_pr_url(S1, slug, Len(prs) + 1) ELSE S1
        /\ ops' = ops + 1
        /\ UNCHANGED <<todos, plan, pc, dryRun, conflicted>>
        /\ UNCHANGED <<gitVars, taskVars, assignVars, lifeVars, mergeVars>>

(***************************************************************************)
(* mem sync [--dry-run], in two steps: the plan is built from what was     *)
(* fetched (lines 766-796), then printed or executed (lines 798-833).      *)
(* GitHub can change between the two.                                      *)
(***************************************************************************)
\* src/utils/specs.py, ensure_on_dev_branch: the branch checked out after it.
\* The working tree is clean here, so git checkout dev does not fail.
ensure_on_dev_branch(current) ==
    IF current \in {"main", "test"} THEN "dev" ELSE current

SyncBuild(dry) ==
    LET branch == ensure_on_dev_branch(current_branch)
        files == IF branch # current_branch THEN dev_tree
                 ELSE [specs |-> specs, todos |-> todos]
    IN  /\ pc = "idle"
        /\ current_branch' = branch
        /\ specs' = files.specs
        /\ todos' = files.todos
        /\ \E local_specs \in Perms(list_specs(files.specs, "")) :
              plan' = build_sync_plan(files.specs, files.todos, issues, prs,
                                      local_specs,
                                      list_repo_issues(issues, "open"))
        /\ pc' = "planned"
        /\ dryRun' = dry
        /\ conflicted' = [reported |-> ConflictSlugs(plan'), edited |-> {}]
        /\ UNCHANGED <<dev_tree, issues, prs, ops>>
        /\ UNCHANGED <<taskVars, assignVars, lifeVars, mergeVars>>

\* Lines 799-805: the plan is executed unless --dry-run, and only if it has changes.
applies(dry, p) == ~dry /\ has_changes(p)

SyncApply ==
    LET st == execute_sync_plan(plan, [specs |-> specs, todos |-> todos,
                                       issues |-> issues])
    IN  /\ pc = "planned"
        /\ Len(issues) + Len(plan.outbound_creates) <= MaxIssues
        /\ IF applies(dryRun, plan)
           THEN /\ specs' = st.specs
                /\ todos' = st.todos
                /\ issues' = st.issues
           ELSE UNCHANGED <<specs, todos, issues>>
        /\ pc' = "idle"
        /\ UNCHANGED <<prs, plan, dryRun, conflicted, ops>>
        /\ UNCHANGED <<gitVars, taskVars, assignVars, lifeVars, mergeVars>>

Next ==
    \/ \E title \in SpecTitles : SpecNew(title)
    \/ \E slug \in DOMAIN specs, body \in LocalBodies : LocalEdit(slug, body)
    \/ \E title \in IssueTitles, body \in NewIssueBodies, labels \in IssueLabelSets :
          GhCreateIssue(title, body, labels)
    \/ \E n \in DOMAIN issues, body \in GhBodies : GhEditBody(n, body)
    \/ \E p \in DOMAIN prs : PRMerge(p)
    \/ GitCheckoutMain
    \/ \E slug \in DOMAIN specs, pushed, linked \in BOOLEAN :
          SpecAssign(slug, "u1", pushed, linked)
    \/ \E slug \in DOMAIN specs, pushed, pr_created \in BOOLEAN :
          SpecComplete(slug, pushed, pr_created)
    \/ \E dry \in BOOLEAN : SyncBuild(dry)
    \/ SyncApply

Spec == Init /\ [][Next]_vars

(***************************************************************************)
(* Properties of sync.                                                     *)
(***************************************************************************)
Range(seq) == {seq[i] : i \in 1..Len(seq)}

\* The step of a sync run that builds the plan, and the step that ends it.
SyncPlanned == pc = "idle" /\ pc' = "planned"
SyncFinished == pc = "planned" /\ pc' = "idle"

\* The body of a spec file: frontmatter and comments section removed.
BodyOf(f) == extract_body_from_spec_file(f.rest)

LocalBodyChanged(f) == f.local_content_hash # compute_content_hash(BodyOf(f))

RemoteBodyChanged(f, issue) ==
    f.remote_content_hash # compute_content_hash(issue.body)

Listed(bucket, slug, n) ==
    \E i \in 1..Len(bucket) :
        bucket[i].spec_slug = slug /\ bucket[i].issue_number = n

\* C1: a sync run replaces a spec's local body by GitHub content only if the
\* local body is unchanged since the last sync (its hash equals the stored
\* local_content_hash), and replaces an issue body by local content only if
\* the issue body, at the moment it is overwritten, is unchanged since the
\* last sync (its hash equals the stored remote_content_hash).
C1_NoUnsyncedOverwrite ==
    [][SyncFinished =>
        /\ \A s \in DOMAIN specs :
              BodyOf(specs'[s]) # BodyOf(specs[s]) => ~LocalBodyChanged(specs[s])
        /\ \A n \in DOMAIN issues :
              issues'[n].body # issues[n].body =>
                 \E s \in DOMAIN specs :
                    /\ specs[s].issue_id = n
                    /\ ~RemoteBodyChanged(specs[s], issues[n])]_vars

\* C2: build_sync_plan puts every open mem-spec issue that matches a local
\* spec by issue id in exactly one content bucket: conflicts if both bodies
\* changed since the last sync, inbound_updates if only the issue body did,
\* outbound_updates if only the local body did, none if neither did; an open
\* mem-spec issue without a matching spec goes to inbound_creates and a local
\* spec without issue_id goes to outbound_creates.
C2_PlanBuckets ==
    [][SyncPlanned =>
        /\ \A n \in DOMAIN issues, s \in list_specs(specs', "") :
              LET l == LocalBodyChanged(specs'[s])
                  r == RemoteBodyChanged(specs'[s], issues[n])
                  match == /\ issues[n].state = "open"
                           /\ "mem-spec" \in issues[n].labels
                           /\ specs'[s].issue_id = n
              IN  /\ Listed(plan'.conflicts, s, n) <=> (match /\ l /\ r)
                  /\ Listed(plan'.inbound_updates, s, n) <=> (match /\ ~l /\ r)
                  /\ Listed(plan'.outbound_updates, s, n) <=> (match /\ l /\ ~r)
        /\ \A n \in DOMAIN issues :
              n \in Range(plan'.inbound_creates) <=>
                 /\ issues[n].state = "open"
                 /\ "mem-spec" \in issues[n].labels
                 /\ \A s \in list_specs(specs', "") : specs'[s].issue_id # n
        /\ \A s \in list_specs(specs', "") :
              s \in Range(plan'.outbound_creates) <=> specs'[s].issue_id = 0
        /\ Len(plan'.conflicts) + Len(plan'.inbound_updates)
              + Len(plan'.outbound_updates) + Len(plan'.inbound_creates)
              <= Len(issues)]_vars

\* C2 happens: a plan with a conflict has been built.
C2_Witness == pc = "planned" /\ plan.conflicts # <<>>

\* C4: sync --dry-run leaves every spec file, every todo file and every
\* GitHub issue as it was, whatever the plan contains.
C4_DryRunAppliesNothing ==
    [][((SyncPlanned /\ dryRun') \/ (SyncFinished /\ dryRun)) =>
        /\ specs' = specs
        /\ todos' = todos
        /\ issues' = issues]_vars

\* C4, for a run started on dev: there sync --dry-run leaves the files and
\* the issues as they were.
C4_DryRunOnDevAppliesNothing ==
    [][(((SyncPlanned /\ dryRun') \/ (SyncFinished /\ dryRun))
         /\ current_branch = "dev") =>
        /\ specs' = specs
        /\ todos' = todos
        /\ issues' = issues]_vars

\* C5: after a sync that is not a dry run, every spec that was in the root
\* specs directory without issue_id is linked to exactly one newly created
\* issue labelled mem-spec, whose body equals the spec's body.
C5_OutboundCreate ==
    [][(SyncFinished /\ ~dryRun) =>
        \A s \in list_specs(specs, "") :
           specs[s].issue_id = 0 =>
              LET n == specs'[s].issue_id
              IN  /\ n \in DOMAIN issues' \ DOMAIN issues
                  /\ "mem-spec" \in issues'[n].labels
                  /\ issues'[n].body = BodyOf(specs'[s])
                  /\ \A s2 \in DOMAIN specs' :
                        specs'[s2].issue_id = n => s2 = s]_vars

\* C5 happens: a sync has created the issues of two unlinked specs.
C5_Witness ==
    /\ pc = "idle"
    /\ ~dryRun
    /\ Len(plan.outbound_creates) = 2
    /\ \A s \in Range(plan.outbound_creates) : specs[s].issue_id # 0

\* C6: after a sync that is not a dry run, for every open mem-spec issue
\* that had no local spec with its issue id, a local spec exists whose
\* issue_id is the issue's number and whose body contains the issue body.
C6_InboundCreate ==
    [][(SyncFinished /\ ~dryRun) =>
        \A n \in Range(plan.inbound_creates) :
           \E s \in DOMAIN specs' :
              /\ specs'[s].issue_id = n
              /\ Contains(parse_frontmatter(specs'[s].rest), issues[n].body)]_vars

\* C7: once the user has edited the local file of a spec that sync reported
\* as a conflict, the next sync no longer classifies the spec as a conflict.
C7_ConflictResolvedByEdit ==
    [][SyncPlanned =>
        \A s \in conflicted.edited : s \notin ConflictSlugs(plan')]_vars

\* C8: build_sync_plan lists a local spec in specs_to_complete if and only
\* if its status is merge_ready, it has a pr_url and that pull request is
\* merged.
C8_SpecsToComplete ==
    [][SyncPlanned =>
        \A s \in DOMAIN specs' :
           (\E i \in 1..Len(plan'.specs_to_complete) :
               plan'.specs_to_complete[i].slug = s)
           <=> /\ specs'[s].status = "merge_ready"
               /\ specs'[s].pr_url \in DOMAIN prs
               /\ prs[specs'[s].pr_url] = "merged"]_vars

\* C8 happens: a plan lists a spec whose pull request was merged.
C8_Witness == pc = "planned" /\ plan.specs_to_complete # <<>>

\* C9: after execute_sync_plan, every spec of the plan's specs_to_complete
\* is in completed/ with status completed, is not listed by list_specs()
\* and is listed by list_specs(status="completed").
C9_MovedToCompleted ==
    [][(SyncFinished /\ ~dryRun) =>
        \A i \in 1..Len(plan.specs_to_complete) :
           LET s == plan.specs_to_complete[i].slug
           IN  /\ find_spec_dir(specs', s) = "completed"
               /\ specs'[s].status = "completed"
               /\ s \notin list_specs(specs', "")
               /\ s \in list_specs(specs', "completed")]_vars

\* C9 happens: a sync has executed a plan that lists a spec to complete.
C9_Witness ==
    /\ pc = "idle"
    /\ ~dryRun
    /\ plan.specs_to_complete # <<>>
    /\ \A i \in 1..Len(plan.specs_to_complete) :
          specs[plan.specs_to_complete[i].slug].dir = "completed"

(***************************************************************************)
(* Tasks of one spec (src/utils/tasks.py, src/commands/task.py,            *)
(* src/commands/subtask.py).  T is what list_tasks returns: the task files *)
(* sorted by order number, subtasks embedded.  A command that fails exits  *)
(* with code 1 (the commands turn a ValueError into that).                 *)
(***************************************************************************)
TaskTitles == {<<"A">>, <<"A", "b">>}
SubtaskTitles == {<<"a">>, <<"A">>}

\* str.lower()
LowerText(t) == [i \in 1..Len(t) |-> Lower(t[i])]

\* get_next_task_number
get_next_task_number(T) ==
    IF T = <<>> THEN 1 ELSE T[Len(T)].order + 1

\* get_task by file name: the index in T of the file with that order number
get_task(T, order) ==
    IF \E i \in 1..Len(T) : T[i].order = order
    THEN CHOOSE i \in 1..Len(T) : T[i].order = order
    ELSE 0

\* find_task_by_title: the first task whose title contains the text
find_task_by_title(T, title) ==
    LET hits == {i \in 1..Len(T) :
                    Contains(LowerText(T[i].title), LowerText(title))}
    IN  IF hits = {} THEN 0 ELSE CHOOSE i \in hits : \A j \in hits : i <= j

create_task(T, title) ==
    Append(T, [order |-> get_next_task_number(T), title |-> title,
               status |-> "todo", subtasks |-> <<>>, notes |-> FALSE])

has_incomplete_subtasks_never(T, i) == FALSE

\* has_incomplete_subtasks of task i (a missing file has no subtasks)
has_incomplete_subtasks(T, i) ==
    i # 0 /\ \E k \in 1..Len(T[i].subtasks) : T[i].subtasks[k].status # "completed"

add_subtask(T, i, title) ==
    [T EXCEPT ![i].subtasks = Append(@, [title |-> title, status |-> "todo"])]

\* complete_subtask: the first subtask with that title, case ignored
subtask_index(T, i, title) ==
    LET hits == {k \in 1..Len(T[i].subtasks) :
                    LowerText(T[i].subtasks[k].title) = LowerText(title)}
    IN  IF hits = {} THEN 0 ELSE CHOOSE k \in hits : \A j \in hits : k <= j

complete_subtask(T, i, title) ==
    [T EXCEPT ![i].subtasks[subtask_index(T, i, title)].status = "completed"]

\* delete_subtask: every subtask with that title, case ignored
delete_subtask(T, i, title) ==
    [T EXCEPT ![i].subtasks =
        SelectSeq(@, LAMBDA st : LowerText(st.title) # LowerText(title))]

complete_task(T, i) == [T EXCEPT ![i].status = "completed"]

complete_task_with_notes(T, i) ==
    [T EXCEPT ![i].status = "completed", ![i].notes = TRUE]

delete_task(T, i) == SelectSeq(T, LAMBDA t : t.order # T[i].order)

Ran(cmd, T, i, code) ==
    lastCmd' = [cmd |-> cmd, task |-> IF i = 0 THEN 0 ELSE T[i].order,
                code |-> code]

\* mem task new <title> <description>
TaskNew(title) ==
    /\ Len(tasks) < MaxTasks
    /\ get_next_task_number(tasks) <= MaxOrder
    /\ tasks' = create_task(tasks, title)
    /\ Ran("task new", tasks', Len(tasks'), 0)
    /\ UNCHANGED <<syncVars, assignVars, lifeVars, mergeVars>>

\* mem subtask new <title> --task <task_title>
SubtaskNew(title, task_title) ==
    LET i == find_task_by_title(tasks, task_title)
    IN  /\ IF i = 0
           THEN /\ UNCHANGED tasks
                /\ Ran("subtask new", tasks, i, 1)
           ELSE /\ Len(tasks[i].subtasks) < MaxSubtasks
                /\ tasks' = add_subtask(tasks, i, title)
                /\ Ran("subtask new", tasks, i, 0)
        /\ UNCHANGED <<syncVars, assignVars, lifeVars, mergeVars>>

\* mem subtask complete <title> --task <task_title>
SubtaskComplete(title, task_title) ==
    LET i == find_task_by_title(tasks, task_title)
    IN  /\ IF i = 0 \/ subtask_index(tasks, i, title) = 0
           THEN /\ UNCHANGED tasks
                /\ Ran("subtask complete", tasks, i, 1)
           ELSE /\ tasks' = complete_subtask(tasks, i, title)
                /\ Ran("subtask complete", tasks, i, 0)
        /\ UNCHANGED <<syncVars, assignVars, lifeVars, mergeVars>>

\* mem subtask delete <title> --task <task_title>
SubtaskDelete(title, task_title) ==
    LET i == find_task_by_title(tasks, task_title)
    IN  /\ IF i = 0 \/ subtask_index(tasks, i, title) = 0
           THEN /\ UNCHANGED tasks
                /\ Ran("subtask delete", tasks, i, 1)
           ELSE /\ tasks' = delete_subtask(tasks, i, title)
                /\ Ran("subtask delete", tasks, i, 0)
        /\ UNCHANGED <<syncVars, assignVars, lifeVars, mergeVars>>

\* mem task complete <title> <notes>
TaskComplete(title) ==
    LET i == find_task_by_title(tasks, title)
    IN  /\ IF i = 0 \/ has_incomplete_subtasks(tasks, i)
           THEN /\ UNCHANGED tasks
                /\ Ran("task complete", tasks, i, 1)
           ELSE /\ tasks' = complete_task_with_notes(tasks, i)
                /\ Ran("task complete", tasks, i, 0)
        /\ UNCHANGED <<syncVars, assignVars, lifeVars, mergeVars>>

\* tasks.complete_task(spec_slug, task_filename), called directly
CompleteTask(order) ==
    LET i == get_task(tasks, order)
    IN  /\ IF has_incomplete_subtasks(tasks, i) \/ i = 0
           THEN /\ UNCHANGED tasks
                /\ Ran("complete_task", tasks, i, 1)
           ELSE /\ tasks' = complete_task(tasks, i)
                /\ Ran("complete_task", tasks, i, 0)
        /\ UNCHANGED <<syncVars, assignVars, lifeVars, mergeVars>>

\* tasks.complete_task_with_notes(spec_slug, task_filename, notes), called directly
CompleteTaskWithNotes(order) ==
    LET i == get_task(tasks, order)
    IN  /\ IF i = 0 \/ has_incomplete_subtasks(tasks, i)
           THEN /\ UNCHANGED tasks
                /\ Ran("complete_task_with_notes", tasks, i, 1)
           ELSE /\ tasks' = complete_task_with_notes(tasks, i)
                /\ Ran("complete_task_with_notes", tasks, i, 0)
        /\ UNCHANGED <<syncVars, assignVars, lifeVars, mergeVars>>

\* mem task delete <title>
TaskDelete(title) ==
    LET i == find_task_by_title(tasks, title)
    IN  /\ IF i = 0
           THEN /\ UNCHANGED tasks
                /\ Ran("task delete", tasks, i, 1)
           ELSE /\ tasks' = delete_task(tasks, i)
                /\ Ran("task delete", tasks, i, 0)
        /\ UNCHANGED <<syncVars, assignVars, lifeVars, mergeVars>>

TaskNext ==
    \/ \E title \in TaskTitles : TaskNew(title)
    \/ \E title \in SubtaskTitles, task_title \in TaskTitles :
          SubtaskNew(title, task_title)
    \/ \E title \in SubtaskTitles, task_title \in TaskTitles :
          SubtaskComplete(title, task_title)
    \/ \E title \in SubtaskTitles, task_title \in TaskTitles :
          SubtaskDelete(title, task_title)
    \/ \E title \in TaskTitles : TaskComplete(title)
    \/ \E order \in 1..MaxOrder : CompleteTask(order)
    \/ \E order \in 1..MaxOrder : CompleteTaskWithNotes(order)
    \/ \E title \in TaskTitles : TaskDelete(title)

TaskSpec == Init /\ [][TaskNext]_vars

CompleteCalls == {"task complete", "complete_task", "complete_task_with_notes"}

\* C3: completing a task fails (exit code 1 / ValueError) and leaves the
\* task as it is, status todo, while one of its subtasks is not completed;
\* once every subtask is completed the same call succeeds and sets the
\* task's status to completed.
C3_TaskCompletionGuard ==
    [][(lastCmd'.cmd \in CompleteCalls /\ lastCmd'.task # 0) =>
        \A i \in 1..Len(tasks) :
           tasks[i].order = lastCmd'.task =>
              IF \E k \in 1..Len(tasks[i].subtasks) :
                    tasks[i].subtasks[k].status # "completed"
              THEN lastCmd'.code = 1 /\ tasks' = tasks
              ELSE lastCmd'.code = 0 /\ tasks'[i].status = "completed"]_vars

\* C3 happens: one task was completed once its subtask was, and completing
\* another task has just failed on its open subtask.
C3_Witness ==
    /\ lastCmd.cmd = "task complete"
    /\ lastCmd.code = 1
    /\ \E i, j \in 1..Len(tasks) :
          /\ tasks[i].order = lastCmd.task
          /\ tasks[i].status = "todo"
          /\ \E k \in 1..Len(tasks[i].subtasks) :
                tasks[i].subtasks[k].status = "todo"
          /\ tasks[j].status = "completed"
          /\ tasks[j].subtasks # <<>>
          /\ \A k \in 1..Len(tasks[j].subtasks) :
                tasks[j].subtasks[k].status = "completed"

(***************************************************************************)
(* mem spec assign run by two users, each in a clone of the repository     *)
(* (src/commands/spec.py, lines 254-384).  A commit is the committed       *)
(* content of .mem/specs; a branch is the sequence of its commits.  The    *)
(* clones meet at the shared remote (git push) and at GitHub.              *)
(***************************************************************************)
AssignSlug == <<"a">>

\* The slugs a user may type: the spec, a unique prefix of the synced spec
\* "bt", the spec that is not synced, no spec.
AssignArgs == {AssignSlug, <<"b">>, <<"t">>, <<"t", "t">>}

already_assigned_never(S, slug, username) == FALSE

\* Lines 293-302: the spec is assigned to someone else
already_assigned(S, slug, username) == S[slug].assigned_to \notin {"", username}

\* git checkout <branch>, before the user has committed anything
Checkout(u, b) ==
    /\ clone[u].pc = "start"
    /\ clone[u].active_branch # b
    /\ clone[u].history = origin[b]
    /\ clone' = [clone EXCEPT ![u].active_branch = b]
    /\ UNCHANGED <<origin, assignees, syncVars, taskVars, lifeVars, mergeVars>>

\* git pull, when the remote branch is ahead of the clean local one
Pull(u) ==
    LET remote == origin[clone[u].active_branch]
    IN  /\ clone[u].pc = "start"
        /\ Len(remote) > Len(clone[u].history)
        /\ SubSeq(remote, 1, Len(clone[u].history)) = clone[u].history
        /\ clone' = [clone EXCEPT ![u].history = remote,
                                  ![u].specs = remote[Len(remote)]]
        /\ UNCHANGED <<origin, assignees, syncVars, taskVars, lifeVars, mergeVars>>

\* Lines 271-331: the checks, the local assignment and the commit.
AssignBegin(u, spec_slug) ==
    LET S == clone[u].specs
        slug == get_spec(S, spec_slug)
        S1 == assign_locally(S, spec_slug, u)
    IN  /\ clone[u].pc = "start"
        /\ Len(clone[u].history) < MaxCommits
        /\ clone' =
              IF slug = None \/ S[slug].issue_id = 0
                 \/ already_assigned(S, slug, u)
              THEN [clone EXCEPT ![u].pc = "done", ![u].arg = spec_slug,
                                 ![u].code = 1]
              ELSE IF clone[u].worktree /\ spec_slug = AssignSlug
              THEN [clone EXCEPT ![u].pc = "done", ![u].arg = spec_slug,
                                 ![u].code = 0]
              ELSE IF find_spec_dir(S, spec_slug) = "none"
              THEN \* update_spec raises: the argument is only a prefix
                   [clone EXCEPT ![u].pc = "done", ![u].arg = spec_slug,
                                 ![u].code = 1]
              ELSE [clone EXCEPT ![u].specs = S1,
                                 ![u].history = Append(@, S1),
                                 ![u].arg = spec_slug,
                                 ![u].pc = "push"]
        /\ UNCHANGED <<origin, assignees, syncVars, taskVars, lifeVars, mergeVars>>

\* Line 333: git push origin <active branch>, rejected unless fast-forward.
AssignPush(u) ==
    LET b == clone[u].active_branch
        fast_forward ==
            /\ Len(origin[b]) <= Len(clone[u].history)
            /\ SubSeq(clone[u].history, 1, Len(origin[b])) = origin[b]
    IN  /\ clone[u].pc = "push"
        /\ IF fast_forward
           THEN /\ origin' = [origin EXCEPT ![b] = clone[u].history]
                /\ clone' = [clone EXCEPT ![u].pc = "worktree"]
           ELSE /\ clone' = [clone EXCEPT ![u].pc = "done", ![u].code = 1]
                /\ UNCHANGED origin
        /\ UNCHANGED <<assignees, syncVars, taskVars, lifeVars, mergeVars>>

\* Lines 335-358: the worktree, then the assignee on GitHub; linked is
\* whether the GitHub call succeeded.
AssignFinish(u, linked) ==
    /\ clone[u].pc = "worktree"
    /\ clone' = [clone EXCEPT ![u].worktree = TRUE, ![u].pc = "done",
                              ![u].code = 0]
    /\ assignees' = IF linked THEN {u} ELSE assignees
    /\ UNCHANGED <<origin, syncVars, taskVars, lifeVars, mergeVars>>

\* The user is back at the prompt.
AssignReturn(u) ==
    /\ clone[u].pc = "done"
    /\ clone' = [clone EXCEPT ![u].pc = "start"]
    /\ UNCHANGED <<origin, assignees, syncVars, taskVars, lifeVars, mergeVars>>

AssignNext ==
    \E u \in Users :
       \/ \E b \in Branches : Checkout(u, b)
       \/ Pull(u)
       \/ \E spec_slug \in AssignArgs : AssignBegin(u, spec_slug)
       \/ AssignPush(u)
       \/ \E linked \in BOOLEAN : AssignFinish(u, linked)
       \/ AssignReturn(u)

AssignSpec == Init /\ [][AssignNext]_vars

\* spec assign has succeeded for u: u is recorded as the assignee in u's
\* clone and the worktree of the spec exists there.
Assigned(u) ==
    /\ clone[u].worktree
    /\ clone[u].specs[AssignSlug].assigned_to = u

\* C10: when two users, each in an own clone, run spec assign on the same
\* synced, unassigned spec, at most one of them ends up recorded as the
\* assignee with a worktree for the spec.
C10_AssignExcludes == Cardinality({u \in Users : Assigned(u)}) <= 1

(***************************************************************************)
(* mem spec complete and mem spec abandon, run in one checkout of the      *)
(* repository (src/commands/spec.py, lines 387-723).  The checkout is the  *)
(* main repository or the worktree of a spec; specs, tasks and dirty       *)
(* describe its working tree, issues and prs describe GitHub.              *)
(***************************************************************************)
LifeSlug == <<"a">>

\* The files and the issues after mem spec new "A", mem spec new "Bt",
\* mem sync and mem spec assign a u1.
LifeSynced ==
    LET S0 == create_spec(create_spec(NoFiles, <<"A">>), <<"B", "t">>)
        p == build_sync_plan(S0, NoFiles, <<>>, <<>>,
                             <<<<"a">>, <<"b", "t">>>>, <<>>)
    IN  execute_sync_plan(p, [specs |-> S0, todos |-> NoFiles, issues |-> <<>>])

LifeSpecs == assign_locally(LifeSynced.specs, LifeSlug, "u1")

LifeIssues ==
    [LifeSynced.issues EXCEPT ![LifeSpecs[LifeSlug].issue_id].assignee = "u1"]

LifeBranch == LifeSpecs[LifeSlug].branch

\* The task files the spec "a" may have when a command is run.
LifeTaskLists ==
    LET T1 == create_task(<<>>, <<"A">>)
        T2 == add_subtask(T1, 1, <<"a">>)
    IN  {<<>>, T1, complete_task(T1, 1), T2,
         complete_task(complete_subtask(T2, 1, <<"a">>), 1),
         add_subtask(complete_task(T1, 1), 1, <<"a">>)}

\* Where the user may be: in the worktree of "a", in the main repository on
\* dev (with or without that worktree), or in the main repository on the
\* branch of "a".
LifeLocations ==
    {[dir |-> LifeSlug, branch |-> LifeBranch, worktrees |-> {LifeSlug}],
     [dir |-> None, branch |-> <<"dev">>, worktrees |-> {LifeSlug}],
     [dir |-> None, branch |-> <<"dev">>, worktrees |-> {}],
     [dir |-> None, branch |-> LifeBranch, worktrees |-> {}]}

\* The slugs the user may type: two specs, a unique prefix, no spec.
LifeArgs == {<<"a">>, <<"b", "t">>, <<"b">>, <<"t">>}

LifeInit ==
    /\ specs = LifeSpecs
    /\ todos = NoFiles
    /\ issues = LifeIssues
    /\ prs = <<>>
    /\ plan = EmptyPlan
    /\ pc = "idle"
    /\ dryRun = FALSE
    /\ conflicted = [reported |-> {}, edited |-> {}]
    /\ ops = 0
    /\ current_branch = "dev"
    /\ dev_tree = MainTree
    /\ tasks \in LifeTaskLists
    /\ lastCmd = [cmd |-> "", task |-> 0, code |-> 0]
    /\ clone = [u \in Users |-> InitClone]
    /\ origin = [b \in Branches |-> <<SharedSpecs>>]
    /\ assignees = {}
    /\ \E loc \in LifeLocations :
          /\ caller_dir = loc.dir
          /\ checked_out = loc.branch
          /\ worktrees = loc.worktrees
    /\ dirty \in BOOLEAN
    /\ result = [cmd |-> "", slug |-> None, code |-> 0]
    /\ heads = NoCommits
    /\ branches = NoBranches
    /\ pulls = <<>>
    /\ argv = NoArgs

\* get_active_spec (src/utils/specs.py): the spec of the worktree the caller
\* is in, else the listed spec whose branch is checked out; None on dev,
\* main, master and test.
get_active_spec(S, dir, branch) ==
    LET in_worktree == IF dir # None THEN get_spec(S, dir) ELSE None
        on_branch == {s \in list_specs(S, "") : S[s].branch = branch}
    IN  IF in_worktree # None THEN in_worktree
        ELSE IF branch \in {<<"dev">>, <<"main">>, <<"master">>, <<"test">>}
        THEN None
        ELSE IF on_branch = {} THEN None
        ELSE CHOOSE s \in on_branch : TRUE

\* list_tasks(spec_slug): the model keeps the task files of one spec
list_tasks(T, spec_slug) == IF spec_slug = LifeSlug THEN T ELSE <<>>

incomplete_tasks_only(T) == \E i \in 1..Len(T) : T[i].status # "completed"

\* spec complete, lines 441-456: a task or an embedded subtask is not completed
incomplete_tasks(T) ==
    \E i \in 1..Len(T) :
       \/ T[i].status # "completed"
       \/ \E k \in 1..Len(T[i].subtasks) : T[i].subtasks[k].status # "completed"

\* move_spec_to_abandoned: status, then the directory
move_spec_to_abandoned(S, slug) ==
    [S EXCEPT ![slug] = Rewrite([@ EXCEPT !.status = "abandoned",
                                          !.dir = "abandoned"])]

\* close_pull_request: the pull request is closed without merging
close_pull_request(P, pr_url) ==
    IF pr_url \in DOMAIN P THEN [P EXCEPT ![pr_url] = "closed"] ELSE P

\* mem spec complete <spec_slug> <message> [--no-log].  pull_ok: git pull
\* --ff-only succeeded (nothing new came in); recent_log: a work log of the
\* last three minutes exists; label_ok, pr_ok: GitHub accepted the label
\* change, the pull request; push_ok: git push succeeded.
Complete(spec_slug, no_log, pull_ok, recent_log, label_ok, push_ok, pr_ok) ==
    LET spec == get_spec(specs, spec_slug)
        active_spec == get_active_spec(specs, caller_dir, checked_out)
        refused ==
            \/ ~pull_ok
            \/ spec = None
            \/ active_spec = None
            \/ active_spec # spec_slug
            \/ incomplete_tasks(list_tasks(tasks, spec_slug))
            \/ (~no_log /\ ~recent_log)
        n == specs[spec].issue_id
        branch_name == specs[spec].branch
        S1 == update_spec_status(specs, spec_slug, "merge_ready")
        I1 == IF n # 0 /\ label_ok
              THEN sync_status_labels(issues, n, "merge_ready") ELSE issues
        pr == n # 0 /\ pr_ok
        code == IF refused \/ branch_name = None \/ ~push_ok THEN 1 ELSE 0
    IN  /\ ops < MaxOps
        /\ pr_ok => Len(prs) < MaxPRs
        /\ ops' = ops + 1
        /\ result' = [cmd |-> "spec complete", slug |-> spec_slug, code |-> code]
        /\ IF refused
           THEN UNCHANGED <<specs, issues, prs, dirty>>
           ELSE IF branch_name = None
           THEN /\ specs' = S1
                /\ issues' = I1
                /\ dirty' = TRUE
                /\ UNCHANGED prs
           ELSE IF ~push_ok
           THEN /\ specs' = S1
                /\ issues' = I1
                /\ dirty' = FALSE
                /\ UNCHANGED prs
           ELSE /\ specs' = IF pr THEN update_spec_pr_url(S1, spec_slug, Len(prs) + 1)
                            ELSE S1
                /\ prs' = IF pr THEN Append(prs, "open") ELSE prs
                /\ issues' = I1
                /\ dirty' = FALSE
        /\ UNCHANGED <<caller_dir, checked_out, worktrees>>
        /\ UNCHANGED <<todos, plan, pc, dryRun, conflicted, gitVars>>
        /\ UNCHANGED <<taskVars, assignVars, mergeVars>>

\* mem spec abandon <spec_slug>.  rm_ok: git worktree remove succeeded;
\* pr_closed, issue_closed: GitHub closed the pull request, the issue.
Abandon(spec_slug, rm_ok, pr_closed, issue_closed) ==
    LET spec == get_spec(specs, spec_slug)
        active_spec == get_active_spec(specs, caller_dir, checked_out)
        refused == caller_dir # None \/ active_spec # None \/ spec = None
        n == specs[spec].issue_id
        W1 == IF spec_slug \in worktrees /\ rm_ok
              THEN worktrees \ {spec_slug} ELSE worktrees
        P1 == IF specs[spec].pr_url # 0 /\ pr_closed
              THEN close_pull_request(prs, specs[spec].pr_url) ELSE prs
        I1 == IF n # 0 /\ issue_closed
              THEN close_issue_with_comment(issues, n) ELSE issues
        dir == find_spec_dir(specs, spec_slug)
        code == IF refused \/ dir \in {"none", "abandoned"} THEN 1 ELSE 0
    IN  /\ ops < MaxOps
        /\ ops' = ops + 1
        /\ result' = [cmd |-> "spec abandon", slug |-> spec_slug, code |-> code]
        /\ IF refused
           THEN UNCHANGED <<specs, issues, prs, worktrees, dirty>>
           ELSE /\ worktrees' = W1
                /\ prs' = P1
                /\ issues' = I1
                /\ IF dir = "none"
                   THEN UNCHANGED <<specs, dirty>>
                   ELSE IF dir = "abandoned"
                   THEN /\ specs' = update_spec_status(specs, spec_slug, "abandoned")
                        /\ dirty' = TRUE
                   ELSE /\ specs' = move_spec_to_abandoned(specs, spec_slug)
                        /\ dirty' = FALSE
        /\ UNCHANGED <<caller_dir, checked_out>>
        /\ UNCHANGED <<todos, plan, pc, dryRun, conflicted, gitVars>>
        /\ UNCHANGED <<taskVars, assignVars, mergeVars>>

LifeNext ==
    \/ \E spec_slug \in LifeArgs,
          no_log, pull_ok, recent_log, label_ok, push_ok, pr_ok \in BOOLEAN :
          Complete(spec_slug, no_log, pull_ok, recent_log, label_ok, push_ok, pr_ok)
    \/ \E spec_slug \in LifeArgs, rm_ok, pr_closed, issue_closed \in BOOLEAN :
          Abandon(spec_slug, rm_ok, pr_closed, issue_closed)

LifeSpec == LifeInit /\ [][LifeNext]_vars

\* The step in which a spec command ran and returned.
Returned(cmd) == ops' = ops + 1 /\ result'.cmd = cmd

\* The caller is in the worktree of the spec, or has its branch checked out.
InWorktreeOrOnBranch(slug) ==
    \/ caller_dir = slug
    \/ specs[slug].branch # None /\ specs[slug].branch = checked_out

\* C11: spec complete exits with code 1, leaves the status of the spec and
\* the checked-out branch as they were when the spec is not the active spec
\* (the caller is neither in its worktree nor on its branch) or one of its
\* tasks or embedded subtasks is not completed.
C11_CompleteRefused ==
    [][Returned("spec complete") =>
        LET slug == get_spec(specs, result'.slug)
        IN  (slug # None
             /\ (~InWorktreeOrOnBranch(slug)
                 \/ incomplete_tasks_only(list_tasks(tasks, slug))
                 \/ \E i \in 1..Len(list_tasks(tasks, slug)) :
                       has_incomplete_subtasks(tasks, i)))
            => /\ result'.code = 1
               /\ specs'[slug].status = specs[slug].status
               /\ checked_out' = checked_out]_vars

\* C11 happens: in the worktree of the spec, spec complete was refused for a
\* completed task with an open subtask, and the spec is still todo.
C11_Witness ==
    /\ result = [cmd |-> "spec complete", slug |-> LifeSlug, code |-> 1]
    /\ caller_dir = LifeSlug
    /\ tasks # <<>>
    /\ ~incomplete_tasks_only(tasks)
    /\ incomplete_tasks(tasks)
    /\ specs[LifeSlug].status = "todo"

\* C12: when spec complete does not exit with code 1 for a spec linked to an
\* issue, the spec is merge_ready and its pr_url names a pull request that
\* exists on GitHub.
C12_CompleteCreatesPR ==
    [][(Returned("spec complete") /\ result'.code = 0
        /\ specs[result'.slug].issue_id # 0) =>
        /\ specs'[result'.slug].status = "merge_ready"
        /\ specs'[result'.slug].pr_url \in DOMAIN prs']_vars

\* C13: after spec complete has succeeded the checkout it ran in is on dev
\* and has no uncommitted changes.
C13_CompleteSwitchesToDev ==
    [][(Returned("spec complete") /\ result'.code = 0) =>
        /\ checked_out' = <<"dev">>
        /\ ~dirty']_vars

\* C14: after spec abandon has succeeded in the main repository with no
\* active spec, the spec is in abandoned/ with status abandoned, is not in
\* the default list and is in list_specs(status="abandoned"), has no
\* worktree, and its issue, if it is linked to one, is closed.
C14_Abandoned ==
    [][(Returned("spec abandon") /\ result'.code = 0) =>
        LET slug == result'.slug
        IN  /\ find_spec_dir(specs', slug) = "abandoned"
            /\ specs'[slug].status = "abandoned"
            /\ slug \notin list_specs(specs', "")
            /\ slug \in list_specs(specs', "abandoned")
            /\ slug \notin worktrees'
            /\ specs[slug].issue_id # 0 =>
                  issues'[specs[slug].issue_id].state = "closed"]_vars

\* C15: spec assign exits with code 1 and changes nothing (the files and
\* commits of the clone, its worktree, the remote, the assignees on GitHub)
\* when the spec does not exist, has no issue_id or is assigned to a
\* different user.
C15_AssignRefused ==
    [][\A u \in Users :
          (clone[u].pc = "start" /\ clone'[u].pc # "start") =>
             LET S == clone[u].specs
                 arg == clone'[u].arg
             IN  (arg \notin DOMAIN S \/ S[arg].issue_id = 0
                  \/ S[arg].assigned_to \notin {"", u})
                 => /\ clone'[u].pc = "done"
                    /\ clone'[u].code = 1
                    /\ clone'[u].specs = S
                    /\ clone'[u].history = clone[u].history
                    /\ clone'[u].worktree = clone[u].worktree
                    /\ origin' = origin
                    /\ assignees' = assignees]_vars

\* C15 happens: spec assign a has just exited with code 1 for a user whose
\* clone shows the spec assigned to the other user.
C15_Witness ==
    \E u \in Users :
       /\ clone[u].pc = "done"
       /\ clone[u].code = 1
       /\ clone[u].arg = AssignSlug
       /\ clone[u].specs[AssignSlug].assigned_to \notin {"", u}

(***************************************************************************)
(* Properties of sync: todos.                                              *)
(***************************************************************************)
\* C16: after a sync that is not a dry run, every open issue without the
\* mem-spec label that the run planned a todo for, or found a todo for, has
\* exactly one todo file linked to it by issue id.
C16_OneTodoPerIssue ==
    [][(SyncFinished /\ ~dryRun) =>
          \A n \in DOMAIN issues :
             (/\ issues[n].state = "open"
              /\ "mem-spec" \notin issues[n].labels
              /\ \/ \E i \in 1..Len(plan.todos_to_create) :
                       plan.todos_to_create[i].issue_number = n
                 \/ ~needs_todo(todos, issues, n))
             => Cardinality({s \in DOMAIN todos' : todos'[s] = n}) = 1]_vars

(***************************************************************************)
(* mem merge into <target> (src/commands/merge.py, lines 446-701).  This   *)
(* world follows the branches only: a commit is its number on the one line *)
(* of history the three branches share, so an ancestor is a smaller        *)
(* number.  Other developers push dev and run mem merge into from their    *)
(* own clones, which moves the branches on origin.                         *)
(***************************************************************************)
MaxHead == 2      \* the newest commit there may be

MergeTargets == {"test", "main", "dev"}

\* The git command of the flow that fails, if one does.
FailPoints == {"none", "fetch", "switch", "pull", "merge", "push", "back"}

Max(a, b) == IF a >= b THEN a ELSE b

\* git pull --ff-only origin <branch>, on the line of history
pull_branch(h, branch) ==
    [h EXCEPT !.local[branch] = Max(@, h.origin[branch])]

\* git merge --ff-only <source> while <branch> is checked out: "Already up
\* to date" when source is an ancestor of branch
merge_branch(h, branch, source) ==
    [h EXCEPT !.local[branch] = Max(@, h.local[source])]

\* git push origin <branch>
push_branch(h, branch) == [h EXCEPT !.origin[branch] = h.local[branch]]

\* Steps 2-6 of _merge_into_test and _merge_into_main: fetch, switch to the
\* target and pull it, merge the source, push, switch back to dev.  A step
\* that fails ends the flow where it stands.
merge_flow(h, branch, target, source, fail_at) ==
    LET h1 == pull_branch(h, target)
        h2 == merge_branch(h1, target, source)
        h3 == push_branch(h2, target)
    IN  CASE fail_at = "fetch"  -> [heads |-> h, branch |-> branch, ok |-> FALSE]
          [] fail_at = "switch" -> [heads |-> h, branch |-> branch, ok |-> FALSE]
          [] fail_at = "pull"   -> [heads |-> h, branch |-> target, ok |-> FALSE]
          [] fail_at = "merge"  -> [heads |-> h1, branch |-> target, ok |-> FALSE]
          [] fail_at = "push"   -> [heads |-> h2, branch |-> target, ok |-> FALSE]
          [] fail_at = "back"   -> [heads |-> h3, branch |-> target, ok |-> FALSE]
          [] OTHER              -> [heads |-> h3, branch |-> "dev", ok |-> TRUE]

\* Lines 446-541
merge_into_test(h, branch, is_dirty, dry_run, fail_at) ==
    IF dry_run THEN [heads |-> h, branch |-> branch, ok |-> TRUE]
    ELSE IF is_dirty THEN [heads |-> h, branch |-> branch, ok |-> FALSE]
    ELSE merge_flow(h, branch, "test", "dev", fail_at)

\* Lines 544-642: a dry run unless --force; dry_run itself is not read
merge_into_main(h, branch, is_dirty, dry_run, force, fail_at) ==
    IF ~force THEN [heads |-> h, branch |-> branch, ok |-> TRUE]
    ELSE IF is_dirty THEN [heads |-> h, branch |-> branch, ok |-> FALSE]
    ELSE merge_flow(h, branch, "main", "test", fail_at)

\* mem merge into <target> [--dry-run] [--force], lines 645-701
Into(target, dry_run, force, fail_at) ==
    LET r == IF target \notin {"test", "main"} \/ current_branch # "dev"
             THEN [heads |-> heads, branch |-> current_branch, ok |-> FALSE]
             ELSE IF target = "test"
             THEN merge_into_test(heads, current_branch, dirty, dry_run, fail_at)
             ELSE merge_into_main(heads, current_branch, dirty, dry_run, force,
                                  fail_at)
    IN  /\ ops < MaxOps
        /\ heads' = r.heads
        /\ current_branch' = r.branch
        /\ argv' = [target |-> target, dry_run |-> dry_run, force |-> force]
        /\ result' = [cmd |-> "into", slug |-> None,
                      code |-> IF r.ok THEN 0 ELSE 1]
        /\ ops' = ops + 1
        /\ UNCHANGED <<specs, todos, issues, prs, plan, pc, dryRun, conflicted,
                       dev_tree, caller_dir, checked_out, worktrees, dirty, pulls, branches>>
        /\ UNCHANGED <<taskVars, assignVars>>

\* git commit on dev, the working tree left clean
GitCommit ==
    /\ current_branch = "dev"
    /\ heads.local.dev < MaxHead
    /\ heads.local.dev >= heads.origin.dev
    /\ heads' = [heads EXCEPT !.local.dev = @ + 1]
    /\ dirty' = FALSE
    /\ UNCHANGED <<syncVars, taskVars, assignVars, pulls, argv, branches>>
    /\ UNCHANGED <<caller_dir, checked_out, worktrees, result>>

\* An edit in the working tree, not committed
GitEdit ==
    /\ ~dirty
    /\ dirty' = TRUE
    /\ UNCHANGED <<syncVars, taskVars, assignVars, mergeVars>>
    /\ UNCHANGED <<caller_dir, checked_out, worktrees, result>>

\* git checkout <branch> by hand, the working tree clean
GitCheckout(branch) ==
    /\ ~dirty
    /\ branch # current_branch
    /\ current_branch' = branch
    /\ UNCHANGED <<specs, todos, issues, prs, plan, pc, dryRun, conflicted, ops,
                   dev_tree>>
    /\ UNCHANGED <<taskVars, assignVars, lifeVars, mergeVars>>

\* Another developer pushes dev, or runs mem merge into test / main with
\* success in a clone whose dev is the dev of origin.
OriginPush(branch) ==
    /\ \/ /\ branch = "dev"
          /\ heads.origin.dev < MaxHead
          /\ heads' = [heads EXCEPT !.origin.dev = @ + 1]
       \/ /\ branch = "test"
          /\ heads.origin.test < heads.origin.dev
          /\ heads' = [heads EXCEPT !.origin.test = heads.origin.dev]
       \/ /\ branch = "main"
          /\ heads.origin.main < heads.origin.test
          /\ heads' = [heads EXCEPT !.origin.main = heads.origin.test]
    /\ UNCHANGED <<syncVars, taskVars, assignVars, lifeVars, pulls, argv, branches>>

IntoNext ==
    \/ \E target \in MergeTargets, dry_run, force \in BOOLEAN, fail_at \in FailPoints :
          Into(target, dry_run, force, fail_at)
    \/ GitCommit
    \/ GitEdit
    \/ \E branch \in {"dev", "test", "main"} : GitCheckout(branch)
    \/ \E branch \in {"dev", "test", "main"} : OriginPush(branch)

IntoSpec == Init /\ [][IntoNext]_vars

\* A run of mem merge into has just returned.
IntoReturned == ops' = ops + 1 /\ result'.cmd = "into"

\* C17: mem merge into switches no branch, merges and pushes nothing unless
\* the target is test or main, the current branch is dev, the working
\* directory is clean, --dry-run is not given and, for main, --force is
\* given; an invalid target, a current branch other than dev or uncommitted
\* changes make it exit with code 1.
C17_IntoGuards ==
    [][IntoReturned =>
          /\ (heads' # heads \/ current_branch' # current_branch)
             => /\ argv'.target \in {"test", "main"}
                /\ current_branch = "dev"
                /\ ~dirty
                /\ ~argv'.dry_run
                /\ (argv'.target = "main" => argv'.force)
          /\ (argv'.target \notin {"test", "main"} \/ current_branch # "dev"
              \/ dirty)
             => result'.code = 1]_vars

\* C18: after mem merge into test succeeds (a run that is not a dry run),
\* test points at the commit dev points at and dev is checked out.
C18_TestAtDev ==
    [][(IntoReturned /\ argv'.target = "test" /\ ~argv'.dry_run
        /\ result'.code = 0)
          => /\ heads'.local.test = heads'.local.dev
             /\ current_branch' = "dev"]_vars

(***************************************************************************)
(* mem merge (src/commands/merge.py, lines 104-343): the pull requests of  *)
(* completed specs are listed, sorted by what GitHub reports on them, and  *)
(* merged; mem sync runs afterwards.  The specs "a" and "bt" were          *)
(* completed by u1; their pull requests are number 1 and number 2.         *)
(***************************************************************************)
MaxPulls == 2       \* pull requests GitHub holds
MaxMerges == 1      \* runs of mem merge in one behaviour

\* pr.mergeable is True, False or None; checks_passing likewise (None when
\* the head commit has no checks); complete: "[Complete]:" is in the title.
PullReports ==
    [mergeable : {"true", "false", "unknown"},
     checks_passing : {"true", "false", "none"},
     complete : BOOLEAN]

MergeSlugs == <<<<"a">>, <<"b", "t">>>>

\* The files of dev once both specs are merge_ready.  recorded: spec
\* complete has written the pr_url of the second pull request (a failure
\* after the pull request exists on GitHub is only a warning,
\* src/commands/spec.py, lines 565-590).

MergeSpecs(recorded) ==
    LET S1 == assign_locally(assign_locally(LifeSynced.specs, MergeSlugs[1], "u1"),
                             MergeSlugs[2], "u1")
        S2 == update_spec_status(update_spec_status(S1, MergeSlugs[1], "merge_ready"),
                                 MergeSlugs[2], "merge_ready")
        S3 == update_spec_pr_url(S2, MergeSlugs[1], 1)
    IN  IF recorded THEN update_spec_pr_url(S3, MergeSlugs[2], 2) ELSE S3

\* pr_info["head_branch"]: pull request p is that of the branch of spec p
head_branch(p) == <<"dev", "u1">> \o MergeSlugs[p]

MergeInit ==
    /\ \E recorded \in BOOLEAN : specs = MergeSpecs(recorded)
    /\ todos = NoFiles
    /\ issues = [n \in DOMAIN LifeSynced.issues |->
                    sync_status_labels(LifeSynced.issues, n, "merge_ready")[n]]
    /\ prs = [p \in 1..MaxPulls |-> "open"]
    /\ pulls \in [1..MaxPulls -> PullReports]
    /\ plan = EmptyPlan
    /\ pc = "idle"
    /\ dryRun = FALSE
    /\ conflicted = [reported |-> {}, edited |-> {}]
    /\ ops = 0
    /\ current_branch = "dev"
    /\ dev_tree = MainTree
    /\ tasks = <<>>
    /\ lastCmd = [cmd |-> "", task |-> 0, code |-> 0]
    /\ clone = [u \in Users |-> InitClone]
    /\ origin = [b \in Branches |-> <<SharedSpecs>>]
    /\ assignees = {}
    /\ caller_dir = None
    /\ checked_out = <<"dev">>
    /\ worktrees = {MergeSlugs[1]}
    /\ dirty = FALSE
    /\ result = [cmd |-> "", slug |-> None, code |-> 0]
    /\ heads = NoCommits
    /\ branches = NoBranches
    /\ argv = NoArgs

\* list_merge_ready_prs: the open pull requests into dev with "[Complete]:"
\* in the title, by number
RECURSIVE list_merge_ready_prs(_, _, _)
list_merge_ready_prs(P, R, n) ==
    IF n > Len(P) THEN <<>>
    ELSE (IF P[n] = "open" /\ R[n].complete THEN <<n>> ELSE <<>>)
         \o list_merge_ready_prs(P, R, n + 1)

\* Lines 177-188: the lists a pull request that has no conflicts is sorted into
checks_failing(R, listed) ==
    SelectSeq(listed, LAMBDA p : R[p].mergeable # "false"
                                 /\ R[p].checks_passing = "false")

ready_to_merge(R, listed) ==
    SelectSeq(listed, LAMBDA p : R[p].mergeable # "false"
                                 /\ R[p].checks_passing # "false")

include_failing_always(ready, failing, force) == ready \o failing

\* Lines 228-231: --force adds the pull requests with failing checks
include_failing(ready, failing, force) ==
    IF force THEN ready \o failing ELSE ready

\* What the user answers: --all given, or at the prompt "q", "all", numbers
\* of the list, something that is not a number.
Selections ==
    {[kind |-> k, picks |-> {}] : k \in {"--all", "q", "all", "bad"}}
    \cup {[kind |-> "pick", picks |-> s] : s \in SUBSET (1..MaxPulls)}

\* Lines 243-270
select_prs(ready, selection) ==
    IF selection.kind \in {"--all", "all"} \/ Len(ready) = 1 THEN ready
    ELSE IF selection.kind = "pick"
    THEN LET RECURSIVE pick(_)
             pick(i) == IF i > Len(ready) THEN <<>>
                        ELSE (IF i \in selection.picks THEN <<ready[i]>> ELSE <<>>)
                             \o pick(i + 1)
         IN  pick(1)
    ELSE <<>>

\* merge_pull_request: GitHub merges an open pull request unless it reports
\* it as not mergeable; refused are the pull requests it turns down otherwise.
merge_pull_request(P, R, p, refused) ==
    P[p] = "open" /\ R[p].mergeable # "false" /\ p \notin refused

\* extract_spec_slug_from_branch: dev-{username}-{spec_slug}
extract_spec_slug_from_branch(branch_name) ==
    IF Len(branch_name) >= 3 /\ Head(branch_name) = "dev"
    THEN Tail(Tail(branch_name)) ELSE None

\* The sync run at the end of mem merge (lines 328-333), with P the pull
\* requests as they are after the merges; sync_ok: its git pull succeeded.
run_sync(P, sync_ok, local_specs) ==
    LET p1 == build_sync_plan(specs, todos, issues, P, local_specs,
                              list_repo_issues(issues, "open"))
        st == IF has_changes(p1)
              THEN execute_sync_plan(p1, [specs |-> specs, todos |-> todos,
                                          issues |-> issues])
              ELSE [specs |-> specs, todos |-> todos, issues |-> issues]
    IN  /\ current_branch' = ensure_on_dev_branch(current_branch)
        /\ IF sync_ok
           THEN /\ plan' = p1
                /\ dryRun' = FALSE
                /\ conflicted' = [reported |-> ConflictSlugs(p1), edited |-> {}]
                /\ specs' = st.specs
                /\ todos' = st.todos
                /\ issues' = st.issues
           ELSE UNCHANGED <<specs, todos, issues, plan, dryRun, conflicted>>
        /\ result' = [cmd |-> "merge", slug |-> None,
                      code |-> IF sync_ok THEN 0 ELSE 1]

\* mem merge [--dry-run] [--force] [--all] [--no-sync] [--keep-branches].
\* pull_ok: git pull succeeded; refused: see merge_pull_request.
Merge(dry_run, force, selection, no_sync, delete_branches) ==
    LET listed == list_merge_ready_prs(prs, pulls, 1)
        ready == include_failing(ready_to_merge(pulls, listed),
                                 checks_failing(pulls, listed), force)
        prompted == selection.kind # "--all" /\ Len(ready) > 1
        selected == select_prs(ready, selection)
        exit(code) ==
            /\ result' = [cmd |-> "merge", slug |-> None, code |-> code]
            /\ UNCHANGED <<specs, todos, issues, prs, plan, dryRun, conflicted,
                           current_branch, worktrees, branches>>
    IN  /\ ops < MaxMerges
        /\ ops' = ops + 1
        /\ argv' = [target |-> "", dry_run |-> dry_run, force |-> force,
                    no_sync |-> no_sync]
        /\ IF dirty THEN exit(1)
           ELSE \E pull_ok \in BOOLEAN :
             IF ~pull_ok THEN exit(1)
             ELSE IF listed = <<>> \/ ready = <<>> \/ dry_run THEN exit(0)
             ELSE IF prompted /\ selection.kind = "q" THEN exit(0)
             ELSE IF prompted /\ selection.kind = "bad" THEN exit(1)
             ELSE IF selected = <<>> THEN exit(0)
             ELSE \E refused \in SUBSET Range(selected) :
               LET merged == {p \in Range(selected) :
                                 merge_pull_request(prs, pulls, p, refused)}
                   P1 == [p \in DOMAIN prs |->
                             IF p \in merged THEN "merged" ELSE prs[p]]
                   gone == {extract_spec_slug_from_branch(head_branch(p)) :
                               p \in merged}
               IN  /\ prs' = P1
                   /\ worktrees' = IF delete_branches THEN worktrees \ gone
                                   ELSE worktrees
                   /\ branches' =
                         IF delete_branches
                         THEN [local |-> branches.local \
                                            {head_branch(p) : p \in merged},
                               remote |-> branches.remote \
                                            {head_branch(p) : p \in merged}]
                         ELSE branches
                   /\ IF ~no_sync /\ merged # {}
                      THEN \E sync_ok \in BOOLEAN,
                              local_specs \in Perms(list_specs(specs, "")) :
                              run_sync(P1, sync_ok, local_specs)
                      ELSE /\ result' = [cmd |-> "merge", slug |-> None,
                                         code |-> 0]
                           /\ UNCHANGED <<specs, todos, issues, plan, dryRun,
                                          conflicted, current_branch>>
        /\ UNCHANGED <<pc, dev_tree, caller_dir, checked_out, dirty, heads, pulls>>
        /\ UNCHANGED <<taskVars, assignVars>>

MergeNext ==
    \/ \E dry_run, force, no_sync, delete_branches \in BOOLEAN,
          selection \in Selections :
          Merge(dry_run, force, selection, no_sync, delete_branches)
    \/ GitEdit

MergeSpec == MergeInit /\ [][MergeNext]_vars

\* C19: mem merge never merges a pull request that GitHub reports as not
\* mergeable, with or without --force; it merges a pull request whose checks
\* fail only with --force; with --dry-run it merges nothing.
C19_MergeGuards ==
    [][\A p \in DOMAIN prs :
          (result'.cmd = "merge" /\ ops' = ops + 1
           /\ prs[p] = "open" /\ prs'[p] = "merged")
          => /\ pulls[p].mergeable # "false"
             /\ (pulls[p].checks_passing = "false" => argv'.force)
             /\ ~argv'.dry_run]_vars

\* C19 happens: mem merge --force has merged a pull request whose checks
\* fail, next to one that GitHub reports as not mergeable and that is still
\* open.
C19_Witness ==
    /\ result.cmd = "merge"
    /\ argv.force
    /\ \E p \in DOMAIN prs :
          prs[p] = "merged" /\ pulls[p].checks_passing = "false"
    /\ \E p \in DOMAIN prs :
          prs[p] = "open" /\ pulls[p].mergeable = "false" /\ pulls[p].complete

(***************************************************************************)
(* Properties of sync: the fixpoint.                                       *)
(***************************************************************************)
\* C20: when a sync that is not a dry run has applied the plan it built from
\* the files and GitHub as they are, and the plan reports no conflict, the
\* plan of a sync that follows at once has no changes.
C20_SyncFixpoint ==
    [][(/\ SyncFinished
        /\ ~dryRun
        /\ plan.conflicts = <<>>
        /\ \E local_specs \in Perms(list_specs(specs, "")) :
              plan = build_sync_plan(specs, todos, issues, prs, local_specs,
                                     list_repo_issues(issues, "open")))
          => \A local_specs \in Perms(list_specs(specs', "")) :
                ~has_changes(build_sync_plan(specs', todos', issues', prs',
                                             local_specs,
                                             list_repo_issues(issues', "open")))]_vars

(***************************************************************************)
(* Properties of sync: git state, status, directories.                     *)
(***************************************************************************)
\* C30: sync --dry-run leaves the checked-out branch as it was, whichever
\* branch it is started from.
C30_DryRunKeepsBranch ==
    [][((SyncPlanned /\ dryRun') \/ (SyncFinished /\ dryRun)) =>
          current_branch' = current_branch]_vars

(***************************************************************************)
(* The sync world with GitHub-side edits of an issue: its title, its       *)
(* labels, closing and reopening it (what issue.edit takes).               *)
(***************************************************************************)
HubSpecTitles == {<<"A">>}
HubIssueTitles == {<<"[Spec]:", " ", "A">>, <<"T">>}

\* Label sets people give an issue: with and without a status label, with
\* a label of their own.
HubLabelSets ==
    {{"mem-spec"}, {"mem-spec", "bug", "mem-status:todo"},
     {"mem-spec", "mem-status:active"}}

GhEditIssue(n, title, labels, state) ==
    /\ ops < MaxOps
    /\ n \in DOMAIN issues
    /\ <<title, labels, state>>
          # <<issues[n].title, issues[n].labels, issues[n].state>>
    /\ issues' = [issues EXCEPT ![n].title = title, ![n].labels = labels,
                                ![n].state = state]
    /\ ops' = ops + 1
    /\ UNCHANGED <<specs, todos, prs, plan, pc, dryRun, conflicted>>
    /\ UNCHANGED <<gitVars, taskVars, assignVars, lifeVars, mergeVars>>

HubNext ==
    \/ \E title \in HubSpecTitles : SpecNew(title)
    \/ \E title \in HubIssueTitles, body \in NewIssueBodies, labels \in HubLabelSets :
          GhCreateIssue(title, body, labels)
    \/ \E n \in DOMAIN issues, title \in HubIssueTitles, labels \in HubLabelSets,
          state \in {"open", "closed"} : GhEditIssue(n, title, labels, state)
    \/ \E slug \in list_specs(specs, ""), pushed, pr_created \in BOOLEAN :
          SpecComplete(slug, pushed, pr_created)
    \/ /\ pc = "idle"
       /\ \E slug \in DOMAIN specs, rm_ok, pr_closed, issue_closed \in BOOLEAN :
             Abandon(slug, rm_ok, pr_closed, issue_closed)
    \/ SyncBuild(FALSE)
    \/ SyncApply

HubSpec == Init /\ [][HubNext]_vars

\* The plan in hand is the plan of the files and GitHub as they are.
PlanIsCurrent ==
    \E local_specs \in Perms(list_specs(specs, "")) :
       plan = build_sync_plan(specs, todos, issues, prs, local_specs,
                              list_repo_issues(issues, "open"))

\* Issue n is open and linked to the root spec s, their content is not in
\* conflict, and the status of s is not the one the labels encode.
StatusDiffers(s, n) ==
    /\ s \in list_specs(specs, "")
    /\ specs[s].issue_id = n
    /\ \A s2 \in list_specs(specs, "") : specs[s2].issue_id = n => s2 = s
    /\ issues[n].state = "open"
    /\ "mem-spec" \in issues[n].labels
    /\ ~(local_changed(specs, s) /\ remote_changed(specs, s, issues[n]))
    /\ specs[s].status # get_status_from_labels(issues[n].labels)

C22_DirectoryAndStatus ==
    \A s \in DOMAIN specs :
       /\ specs[s].dir = "root" => specs[s].status \in {"todo", "merge_ready"}
       /\ specs[s].dir = "completed" => specs[s].status = "completed"
       /\ specs[s].dir = "abandoned" => specs[s].status = "abandoned"

\* C28: no two local specs, in whichever directory, have the same issue_id.
C28_IssueIdUnique ==
    \A s1, s2 \in DOMAIN specs :
       (specs[s1].issue_id # 0 /\ specs[s1].issue_id = specs[s2].issue_id)
       => s1 = s2

\* C23: every task with status completed has only completed subtasks,
\* whatever task and subtask commands (new, complete, delete) have run.
C23_CompletedTaskSubtasks ==
    \A i \in 1..Len(tasks) :
       tasks[i].status = "completed" =>
          \A k \in 1..Len(tasks[i].subtasks) :
             tasks[i].subtasks[k].status = "completed"

\* C25: when spec complete exits with code 1, for whatever reason, every
\* spec has the status it had before and no issue has gained the label of
\* the status merge_ready.
C25_CompleteFailsCleanly ==
    [][(Returned("spec complete") /\ result'.code = 1) =>
        /\ \A s \in DOMAIN specs : specs'[s].status = specs[s].status
        /\ \A n \in DOMAIN issues :
              get_status_label_name("merge_ready") \in issues'[n].labels =>
                 get_status_label_name("merge_ready") \in issues[n].labels]_vars

\* C26: when spec abandon exits with code 1 nothing has changed: every
\* spec has the directory and status it had, every worktree still exists,
\* and no issue and no pull request has been closed.
C26_AbandonFailsCleanly ==
    [][(Returned("spec abandon") /\ result'.code = 1) =>
        /\ \A s \in DOMAIN specs :
              /\ specs'[s].dir = specs[s].dir
              /\ specs'[s].status = specs[s].status
        /\ worktrees' = worktrees
        /\ \A n \in DOMAIN issues : issues'[n].state = issues[n].state
        /\ prs' = prs]_vars

(***************************************************************************)
(* sync of a merge_ready spec set up with specs.update_spec, as            *)
(* tests/test_sync_pr_detection.py does: a pull request is created and     *)
(* merged on GitHub, the spec gets status merge_ready and the URL of the   *)
(* pull request, and no issue_id.                                          *)
(***************************************************************************)
\* update_spec(slug, status=..., pr_url=..., issue_id=...)
update_spec(S, slug, status, pr_url, issue_id) ==
    [S EXCEPT ![slug] = Rewrite([@ EXCEPT !.status = status,
                                          !.pr_url = pr_url,
                                          !.issue_id = issue_id])]

\* gh_repo.create_pull(...)
PullCreate ==
    /\ ops < MaxOps
    /\ Len(prs) < MaxPRs
    /\ prs' = Append(prs, "open")
    /\ ops' = ops + 1
    /\ UNCHANGED <<specs, todos, issues, plan, pc, dryRun, conflicted>>
    /\ UNCHANGED <<gitVars, taskVars, assignVars, lifeVars, mergeVars>>

\* specs.update_spec(spec_slug, status="merge_ready", pr_url=pr.html_url,
\* issue_id=None)
UpdateSpec(slug, pr_url) ==
    /\ pc = "idle"
    /\ current_branch = "dev"
    /\ ops < MaxOps
    /\ find_spec_dir(specs, slug) = "root"
    /\ specs' = update_spec(specs, slug, "merge_ready", pr_url, 0)
    /\ ops' = ops + 1
    /\ UNCHANGED <<todos, issues, prs, plan, pc, dryRun, conflicted>>
    /\ UNCHANGED <<gitVars, taskVars, assignVars, lifeVars, mergeVars>>

DoneNext ==
    \/ \E title \in SpecTitles : SpecNew(title)
    \/ PullCreate
    \/ \E p \in DOMAIN prs : PRMerge(p)
    \/ \E slug \in DOMAIN specs, p \in DOMAIN prs : UpdateSpec(slug, p)
    \/ SyncBuild(FALSE)
    \/ SyncApply

DoneSpec == Init /\ [][DoneNext]_vars

\* C24: at the end of a sync run, every spec the run has moved to
\* completed/ that is linked to an issue is linked to a closed issue, also
\* when the spec had no issue_id when the plan was built.
C24_CompletedIssueClosed ==
    [][(SyncFinished /\ ~dryRun) =>
        \A s \in DOMAIN specs :
           (specs[s].dir = "root" /\ specs'[s].dir = "completed"
            /\ specs'[s].issue_id # 0)
           => issues'[specs'[s].issue_id].state = "closed"]_vars

\* The step in which mem merge has merged a pull request and its sync has
\* run to the end.
MergeSynced ==
    /\ result'.cmd = "merge"
    /\ ops' = ops + 1
    /\ result'.code = 0
    /\ ~argv'.no_sync
    /\ prs' # prs

\* C27: when a spec in the root directory has status merge_ready and the
\* pull request of its branch is merged on GitHub, the next sync that is
\* not a dry run moves the spec to completed/.
C27_MergedSpecCompleted ==
    [][MergeSynced =>
        \A p \in DOMAIN prs :
           \A s \in list_specs(specs, "") :
              (specs[s].status = "merge_ready"
               /\ specs[s].branch = head_branch(p)
               /\ prs'[p] = "merged")
              => specs'[s].dir = "completed"]_vars

(***************************************************************************)
(* mem cleanup (src/commands/cleanup.py); sync runs the same run_cleanup   *)
(* at its end (src/commands/sync.py, lines 827-833).  A branch name is the *)
(* sequence of its parts between the first two hyphens and the letters of  *)
(* the rest: dev-u1-bt is <<"dev", "u1", "b", "t">>.                        *)
(***************************************************************************)
CleanSlugs == <<<<"a">>, <<"b", "t">>>>

\* Status and directory a spec can have
CleanPlaces ==
    {[status |-> "todo", dir |-> "root"],
     [status |-> "merge_ready", dir |-> "root"],
     [status |-> "completed", dir |-> "completed"],
     [status |-> "abandoned", dir |-> "abandoned"]}

\* The branches of the two specs, a branch whose slug names no spec, a
\* branch without a slug, a branch that is not dev-*.
CleanBranches ==
    {<<"dev", "u1", "a">>, <<"dev", "u1", "b", "t">>, <<"dev", "u1", "b">>,
     <<"dev", "u1">>, <<"main">>}

CleanInit ==
    /\ \E p1, p2 \in CleanPlaces :
          specs = [LifeSynced.specs EXCEPT
                      ![CleanSlugs[1]].status = p1.status,
                      ![CleanSlugs[1]].dir = p1.dir,
                      ![CleanSlugs[2]].status = p2.status,
                      ![CleanSlugs[2]].dir = p2.dir]
    /\ todos = NoFiles
    /\ issues = LifeSynced.issues
    /\ prs = <<>>
    /\ plan = EmptyPlan
    /\ pc = "idle"
    /\ dryRun = FALSE
    /\ conflicted = [reported |-> {}, edited |-> {}]
    /\ ops = 0
    /\ current_branch = "dev"
    /\ dev_tree = MainTree
    /\ tasks = <<>>
    /\ lastCmd = [cmd |-> "", task |-> 0, code |-> 0]
    /\ clone = [u \in Users |-> InitClone]
    /\ origin = [b \in Branches |-> <<SharedSpecs>>]
    /\ assignees = {}
    /\ caller_dir = None
    /\ checked_out = <<"dev">>
    /\ worktrees = {}
    /\ dirty = FALSE
    /\ result = [cmd |-> "", slug |-> None, code |-> 0]
    /\ heads = NoCommits
    /\ pulls = <<>>
    /\ argv = NoArgs
    /\ branches = NoBranches

\* get_local_branches, get_remote_branches: git branch --list "dev-*"
dev_branches(B) == {b \in B : Head(b) = "dev"}

\* Lines 107-120: the branches run_cleanup goes on to delete
stale_branches(S, all_branches) ==
    {b \in all_branches :
        LET spec_slug == extract_spec_slug_from_branch(b)
        IN  /\ spec_slug # None
            /\ get_spec(S, spec_slug) # None
            /\ S[get_spec(S, spec_slug)].status \in {"completed", "abandoned"}}

\* git branch <name>
GitBranch(b) ==
    /\ b \notin branches.local
    /\ branches' = [branches EXCEPT !.local = @ \cup {b}]
    /\ UNCHANGED <<syncVars, taskVars, assignVars, lifeVars, heads, pulls, argv>>

\* git push origin <name>
GitPushBranch(b) ==
    /\ b \in branches.local
    /\ b \notin branches.remote
    /\ branches' = [branches EXCEPT !.remote = @ \cup {b}]
    /\ UNCHANGED <<syncVars, taskVars, assignVars, lifeVars, heads, pulls, argv>>

\* run_cleanup(dry_run).  gh_repo: the GitHub repository could be opened;
\* local_ok, remote_ok: git branch -D, the deletion on GitHub succeeded.
Cleanup(dry_run, gh_repo, local_ok, remote_ok) ==
    LET local_branches == dev_branches(branches.local)
        remote_branches == dev_branches(branches.remote)
        stale == stale_branches(specs, local_branches \cup remote_branches)
    IN  /\ branches' =
              IF dry_run THEN branches
              ELSE [local |-> IF local_ok THEN branches.local \ stale
                              ELSE branches.local,
                    remote |-> IF gh_repo /\ remote_ok
                               THEN branches.remote \ stale
                               ELSE branches.remote]
        /\ result' = [cmd |-> "cleanup", slug |-> None, code |-> 0]
        /\ argv' = [target |-> "", dry_run |-> dry_run, force |-> FALSE]
        /\ UNCHANGED <<syncVars, taskVars, assignVars, heads, pulls>>
        /\ UNCHANGED <<caller_dir, checked_out, worktrees, dirty>>

CleanNext ==
    \/ \E b \in CleanBranches : GitBranch(b)
    \/ \E b \in CleanBranches : GitPushBranch(b)
    \/ \E dry_run, gh_repo, local_ok, remote_ok \in BOOLEAN :
          Cleanup(dry_run, gh_repo, local_ok, remote_ok)

CleanSpec == CleanInit /\ [][CleanNext]_vars

\* C29: a local or remote branch that run_cleanup deletes is the branch of
\* an existing spec, the one its name dev-{user}-{spec_slug} gives, and that
\* spec has status completed or abandoned.
C29_CleanupDeletesOnlyDone ==
    [][\A b \in CleanBranches :
          \/ b \in branches.local /\ b \notin branches'.local
          \/ b \in branches.remote /\ b \notin branches'.remote
          => /\ extract_spec_slug_from_branch(b) \in DOMAIN specs
             /\ specs[extract_spec_slug_from_branch(b)].status
                   \in {"completed", "abandoned"}]_vars

====
